---- MODULE Spec2Model ----
(***************************************************************************)
(* Gesture particle system: the hand-gesture estimator (GestureDetector),  *)
(* the particle engine (ParticleSystem) and the controller that wires them *)
(* (App), as state machines.                                               *)
(*                                                                         *)
(* Numbers.  JavaScript numbers are modelled in fixed point: a scalar of   *)
(* the estimator (openness, image coordinates, factors) is an integer      *)
(* count of 1/Unit, a world coordinate of the engine an integer count of   *)
(* 1/PUnit.  A product or quotient is rounded to the nearest count, as the *)
(* floating point unit rounds to the nearest representable number.  NaN is *)
(* a value of its own that every arithmetic operation propagates.          *)
(***************************************************************************)
EXTENDS Integers, Sequences, FiniteSets, TLC

\* ------------------------------------------------------------------ bounds
\* Processed camera frames per behaviour.
MaxFrames == 5

\* Control events (setters called by the control surface) per behaviour.
MaxControls == 1

\* Setter calls on a ParticleSystem driven on its own, per behaviour.
MaxCalls == 1

\* Animation frames per behaviour.
MaxTicks == 3

\* The default particle count (5000 in the source) and the largest count.
MaxCount == 3

\* Teardown calls per behaviour.
MaxDisposals == 2

\* The particles of the binary threshold page (5000 in the source).
PageCount == 2

\* start() calls on an App that holds a session already, per behaviour.
MaxRestarts == 1

\* Camera frames and animation frames per behaviour of the whole App.
MaxAppFrames == 2

MaxAppTicks == 3

\* ----------------------------------------------------------------- numbers
\* 1.0 of an estimator scalar.
Unit == 10 * 10 * 10

\* The resolution at which x^0.8 is evaluated.
PowGrid == 5 * 10

\* Not-a-number (the result of 0/0); no other scalar of the model is negative
\* beyond -Unit * Unit.
NaN == 0 - (Unit * Unit * Unit)

IsNaN(v) == v = NaN

Min(a, b) == IF a < b THEN a ELSE b

Max(a, b) == IF a > b THEN a ELSE b

Abs(a) == IF a < 0 THEN 0 - a ELSE a

\* n / d rounded to the nearest integer (d > 0).
Round(n, d) == (2 * n + d) \div (2 * d)

RECURSIVE SqrtFloor(_, _, _)
\* The largest r in lo..hi with r * r <= n (bisection).
SqrtFloor(n, lo, hi) ==
    IF lo >= hi THEN lo
    ELSE LET mid == (lo + hi + 1) \div 2
         IN  IF mid * mid <= n THEN SqrtFloor(n, mid, hi)
             ELSE SqrtFloor(n, lo, mid - 1)

\* Math.sqrt on integer counts, rounded to the nearest count.
Sqrt(n) ==
    LET r == SqrtFloor(n, 0, 2 * Unit)
    IN  IF n - r * r > r THEN r + 1 ELSE r

RECURSIVE RootFloor5(_, _, _)
\* The largest y in lo..hi with y^5 <= c (bisection).
RootFloor5(c, lo, hi) ==
    IF lo >= hi THEN lo
    ELSE LET mid == (lo + hi + 1) \div 2
         IN  IF mid * mid * mid * mid * mid <= c THEN RootFloor5(c, mid, hi)
             ELSE RootFloor5(c, lo, mid - 1)

\* Math.pow(x, 0.8) for x in [0, 1]: the largest grid point y with y^5 <= x^4.
Pow08(x) ==
    IF IsNaN(x) THEN NaN
    ELSE LET xq == Round(x * PowGrid, Unit)
         IN  Round(RootFloor5(xq * xq * xq * xq * PowGrid, 0, PowGrid) * Unit,
                   PowGrid)

\* Math.min(a, b) and Math.max(a, b): NaN if either argument is NaN.
MathMin(a, b) == IF IsNaN(a) \/ IsNaN(b) THEN NaN ELSE Min(a, b)

MathMax(a, b) == IF IsNaN(a) \/ IsNaN(b) THEN NaN ELSE Max(a, b)

\* Math.PI in counts of 1/Unit.
Pi == 3142

TwoPi == 2 * Pi

HalfPi == Pi \div 2

\* a * b for two scalars in counts of 1/Unit.
Mul(a, b) == IF IsNaN(a) \/ IsNaN(b) THEN NaN ELSE Round(a * b, Unit)

\* sin on [0, Pi/2] by its Taylor polynomial of degree 7.
SinQ(y) ==
    LET y2 == Mul(y, y)
        t3 == Round(y2 * y, 6 * Unit)
        t5 == Round(t3 * y2, 20 * Unit)
        t7 == Round(t5 * y2, 42 * Unit)
    IN  Min(y - t3 + t5 - t7, Unit)

\* Math.sin(x) and Math.cos(x), x in counts of 1/Unit of a radian.
Sin(x) ==
    IF IsNaN(x) THEN NaN ELSE
    LET r == x % TwoPi
        half == IF r >= Pi THEN r - Pi ELSE r
        q == IF half > HalfPi THEN Pi - half ELSE half
    IN  IF r >= Pi THEN 0 - SinQ(q) ELSE SinQ(q)

Cos(x) == Sin(x + HalfPi)

RECURSIVE ACosBisect(_, _, _)
\* The largest angle a in lo..hi with Cos(a) >= v (Cos falls on [0, Pi]).
ACosBisect(v, lo, hi) ==
    IF lo >= hi THEN lo
    ELSE LET mid == (lo + hi + 1) \div 2
         IN  IF Cos(mid) >= v THEN ACosBisect(v, mid, hi)
             ELSE ACosBisect(v, lo, mid - 1)

\* Math.acos(v) for v in [-1, 1].
ACos(v) == ACosBisect(v, 0, Pi)

RECURSIVE CbrtBisect(_, _, _)
\* The largest r in lo..hi with r^3 <= c.
CbrtBisect(c, lo, hi) ==
    IF lo >= hi THEN lo
    ELSE LET mid == (lo + hi + 1) \div 2
         IN  IF mid * mid * mid <= c THEN CbrtBisect(c, mid, hi)
             ELSE CbrtBisect(c, lo, mid - 1)

\* Math.cbrt(u) for u in [0, 1].
Cbrt(u) == CbrtBisect(u * Unit * Unit, 0, Unit)

\* Math.random(): a generator with hidden state.  The state is a residue
\* modulo SeedMod, a call returns state / SeedMod (in [0, 1)) and advances
\* the state by a full-period linear congruence.
SeedMod == 4 * 4

NextSeed(seed) == (5 * seed + 3) % SeedMod

RECURSIVE SeedAfter(_, _)
\* The generator's state after k calls.
SeedAfter(seed, k) == IF k = 0 THEN seed ELSE SeedAfter(NextSeed(seed), k - 1)

\* What the k-th call of Math.random() from state seed returns.
Random(seed, k) == Round(SeedAfter(seed, k - 1) * Unit, SeedMod)

\* ------------------------------------------------------------- GestureDetector
\* GestureDetector.lerp(a, b, t) = a + (b - a) * t, t in counts of 1/Unit.
lerp(a, b, t) ==
    IF IsNaN(a) \/ IsNaN(b) \/ IsNaN(t) THEN NaN
    ELSE a + Round((b - a) * t, Unit)

\* GestureDetector.distance(p1, p2); a landmark is [x, y, z].
distance(p1, p2) ==
    LET dx == p1.x - p2.x
        dy == p1.y - p2.y
        dz == p1.z - p2.z
    IN  Sqrt(dx * dx + dy * dy + dz * dz)

\* Landmark indices of analyzeGesture (the model's sequences are 1-based, so
\* landmark k of the source is element k + 1).
WRIST == 0
INDEX_MCP == 5
PINKY_MCP == 17
fingerTips == <<4, 8, 12, 16, 20>>
fingerMCPs == <<1, 5, 9, 13, 17>>

PINKY_TIP == 20

\* The number of landmarks of a complete hand: indices WRIST..PINKY_TIP.
NumLandmarks == PINKY_TIP + 1

LM(landmarks, k) == landmarks[k + 1]

\* tipToMCP / (mcpToWrist * 1.5) capped at 1: 0/0 is NaN, x/0 is Infinity
\* for x > 0, and Math.min(Infinity, 1) = 1.
extension(tipToMCP, mcpToWrist) ==
    IF mcpToWrist = 0
    THEN IF tipToMCP = 0 THEN NaN ELSE Unit
    ELSE Min(Round(2 * tipToMCP * Unit, 3 * mcpToWrist), Unit)

fingerExtension(landmarks, i) ==
    extension(distance(LM(landmarks, fingerTips[i]), LM(landmarks, fingerMCPs[i])),
              distance(LM(landmarks, fingerMCPs[i]), LM(landmarks, WRIST)))

\* a + b of the source: NaN if either is NaN.
Plus(a, b) == IF IsNaN(a) \/ IsNaN(b) THEN NaN ELSE a + b

RECURSIVE totalExtension(_, _)
\* totalExtension after the first i fingers of the loop.
totalExtension(landmarks, i) ==
    IF i = 0 THEN 0
    ELSE Plus(totalExtension(landmarks, i - 1), fingerExtension(landmarks, i))

\* GestureDetector.analyzeGesture(landmarks) for a 21-point landmark list.
analyzeGesture(landmarks) ==
    LET palmCenter ==
            [x |-> Round(LM(landmarks, WRIST).x + LM(landmarks, INDEX_MCP).x
                         + LM(landmarks, PINKY_MCP).x, 3),
             y |-> Round(LM(landmarks, WRIST).y + LM(landmarks, INDEX_MCP).y
                         + LM(landmarks, PINKY_MCP).y, 3)]
        total == totalExtension(landmarks, Len(fingerTips))
        avg == IF IsNaN(total) THEN NaN ELSE Round(total, Len(fingerTips))
        openness == Pow08(avg)
    IN  [openness |-> MathMax(0, MathMin(Unit, openness)),
         position |-> palmCenter]

\* ------------------------------------------------------------ landmark samples
\* What the external hand-landmark detector may deliver.  P is a landmark.
P(x, y) == [x |-> x, y |-> y, z |-> 0]

Mid(p, q) == [x |-> (p.x + q.x) \div 2, y |-> (p.y + q.y) \div 2, z |-> 0]

\* A 21-point hand from its wrist, the five finger bases (landmarks 1, 5, 9,
\* 13, 17) and the five tips (4, 8, 12, 16, 20); the joints between a base
\* and its tip lie on the segment joining them.
HandOf(wrist, bases, tips) ==
    [k \in 1..NumLandmarks |->
        IF k = 1 THEN wrist
        ELSE LET f == ((k - 2) \div 4) + 1
                 j == (k - 2) % 4
             IN  IF j = 0 THEN bases[f]
                 ELSE IF j = 3 THEN tips[f]
                 ELSE Mid(bases[f], tips[f])]

\* The finger bases of a hand whose wrist is at (wx, wy).
BasesAt(wx, wy) ==
    <<P(wx - 150, wy - 100), P(wx - 100, wy - 300), P(wx, wy - 320),
      P(wx + 100, wy - 300), P(wx + 200, wy - 250)>>

\* Tips at the given distance above their bases (image y grows downward).
TipsAbove(bases, d) == [f \in 1..5 |-> P(bases[f].x, bases[f].y - d)]

OpenHand == HandOf(P(500, 900), BasesAt(500, 900), TipsAbove(BasesAt(500, 900), 500))

HalfHand == HandOf(P(300, 700), BasesAt(300, 700), TipsAbove(BasesAt(300, 700), 200))

Fist == HandOf(P(800, 500), BasesAt(800, 500), TipsAbove(BasesAt(800, 500), 40))

\* A degenerate hand: the thumb's base and tip coincide with the wrist.
DegenerateHand ==
    [k \in 1..NumLandmarks |-> IF k \in 2..5 THEN P(500, 900) ELSE OpenHand[k]]

\* A partial landmark list: the first ten points of a hand.
PartialHand == SubSeq(OpenHand, 1, 10)

\* results of the landmark detector: at most one hand (maxNumHands: 1).
NoHandResults == [hands |-> <<>>]

HandResults(landmarks) == [hands |-> <<[landmarks |-> landmarks, score |-> 900]>>]

CompleteHands == {OpenHand, HalfHand, Fist, DegenerateHand}

AllResults ==
    {NoHandResults, HandResults(PartialHand)}
        \cup {HandResults(h) : h \in CompleteHands}

\* analyzeGesture tabulated over the complete sample hands.
analyzed == [h \in CompleteHands |-> analyzeGesture(h)]

\* How a frame is recorded in frameLog.
FrameKind(results) ==
    IF Len(results.hands) = 0 THEN "none"
    ELSE IF Len(results.hands[1].landmarks) < NumLandmarks THEN "partial"
    ELSE "hand"

\* The values of the sensitivity slider the model draws from.
SensitivityValues == {0, Unit}

\* The 0.05 of the no-hand branch of onResults, in counts of 1/Unit.
RelaxFactor == Unit \div 20

\* The neutral openness and position coordinate, 0.5.
Neutral == Unit \div 2

\* The smoothingFactor the constructor sets, 0.3.
DefaultSmoothing == (3 * Unit) \div 10

\* new GestureDetector(video, canvas): the fields the constructor sets.
\* wasHandDetected is not set by the constructor: it is undefined, which
\* the tests of onResults read as false.  A callback field holds whether a
\* callback is registered; hands and camera hold the collaborator's state.
NewGestureDetector ==
    [hands |-> "null",
     camera |-> "null",
     isRunning |-> FALSE,
     showTracking |-> TRUE,
     sensitivity |-> Unit,
     currentGesture |-> [openness |-> Neutral,
                         position |-> [x |-> Neutral, y |-> Neutral],
                         isDetected |-> FALSE,
                         confidence |-> 0],
     onGestureUpdate |-> FALSE,
     onHandDetected |-> FALSE,
     onHandLost |-> FALSE,
     smoothingFactor |-> DefaultSmoothing,
     previousOpenness |-> Neutral,
     previousPosition |-> [x |-> Neutral, y |-> Neutral],
     wasHandDetected |-> FALSE]

\* One callback invocation: which callback, and the GestureState a reader of
\* getGesture() sees while it runs.
Note(cb, g) == [cb |-> cb, seen |-> g.currentGesture]

\* HandBranch without line 133 (wasHandDetected = true).
HandBranch_FlagNotSet(g, hand) ==
    LET gesture == analyzed[hand.landmarks]
        cg == [openness |-> lerp(g.previousOpenness, gesture.openness,
                                 g.smoothingFactor),
               position |->
                   [x |-> lerp(g.previousPosition.x, gesture.position.x,
                               g.smoothingFactor),
                    y |-> lerp(g.previousPosition.y, gesture.position.y,
                               g.smoothingFactor)],
               isDetected |-> TRUE,
               confidence |-> hand.score]
        g2 == [g EXCEPT !.currentGesture = cg,
                        !.previousOpenness = cg.openness,
                        !.previousPosition = cg.position]
    IN  [gd |-> g2,
         notes |-> <<Note("onGestureUpdate", g2)>>
                   \o (IF ~g2.wasHandDetected
                       THEN <<Note("onHandDetected", g2)>> ELSE <<>>),
         threw |-> "none"]

\* onResults, lines 96-133: a landmark list is present.
HandBranch(g, hand) ==
    LET gesture == analyzed[hand.landmarks]
        g1 == [g EXCEPT
                 !.currentGesture =
                     [openness |-> lerp(g.previousOpenness, gesture.openness,
                                        g.smoothingFactor),
                      position |->
                          [x |-> lerp(g.previousPosition.x, gesture.position.x,
                                      g.smoothingFactor),
                           y |-> lerp(g.previousPosition.y, gesture.position.y,
                                      g.smoothingFactor)],
                      isDetected |-> TRUE,
                      confidence |-> hand.score]]
        g2 == [g1 EXCEPT !.previousOpenness = g1.currentGesture.openness,
                         !.previousPosition = g1.currentGesture.position]
    IN  [gd |-> [g2 EXCEPT !.wasHandDetected = TRUE],
         notes |-> (IF g2.onGestureUpdate
                    THEN <<Note("onGestureUpdate", g2)>> ELSE <<>>)
                   \o (IF ~g2.wasHandDetected /\ g2.onHandDetected
                       THEN <<Note("onHandDetected", g2)>> ELSE <<>>),
         threw |-> "none"]

\* NoHandBranch without line 139 (wasHandDetected = false).
NoHandBranch_FlagNotCleared(g) ==
    LET g2 == [g EXCEPT
                 !.currentGesture.isDetected = FALSE,
                 !.currentGesture.openness =
                     lerp(g.currentGesture.openness, Neutral, RelaxFactor),
                 !.currentGesture.position =
                     [x |-> lerp(g.currentGesture.position.x, Neutral, RelaxFactor),
                      y |-> lerp(g.currentGesture.position.y, Neutral, RelaxFactor)]]
    IN  [gd |-> g2,
         notes |-> (IF g.wasHandDetected THEN <<Note("onHandLost", g)>> ELSE <<>>)
                   \o <<Note("onGestureUpdate", g2)>>,
         threw |-> "none"]

\* onResults, lines 134-152: no landmark list.
NoHandBranch(g) ==
    LET g1 == [g EXCEPT !.wasHandDetected = FALSE,
                        !.currentGesture.isDetected = FALSE]
        g2 == [g1 EXCEPT
                 !.currentGesture.openness =
                     lerp(g1.currentGesture.openness, Neutral, RelaxFactor),
                 !.currentGesture.position =
                     [x |-> lerp(g1.currentGesture.position.x, Neutral, RelaxFactor),
                      y |-> lerp(g1.currentGesture.position.y, Neutral, RelaxFactor)]]
    IN  [gd |-> g2,
         notes |-> (IF g.wasHandDetected /\ g.onHandLost
                    THEN <<Note("onHandLost", g)>> ELSE <<>>)
                   \o (IF g2.onGestureUpdate
                       THEN <<Note("onGestureUpdate", g2)>> ELSE <<>>),
         threw |-> "none"]

\* GestureDetector.onResults(results): the detector after the call, the
\* callbacks it invoked in order, and the exception it raised if any.
\* results.hands is results.multiHandLandmarks paired with multiHandedness.
\* drawHand (showTracking) and analyzeGesture read landmarks up to index
\* PINKY_TIP; on a shorter list the read of .x of undefined raises a
\* TypeError before any field is assigned.
onResults(g, results) ==
    IF Len(results.hands) > 0
    THEN IF Len(results.hands[1].landmarks) < NumLandmarks
         THEN [gd |-> g, notes |-> <<>>, threw |-> "TypeError"]
         ELSE HandBranch(g, results.hands[1])
    ELSE NoHandBranch(g)

\* GestureDetector.setSensitivity(sensitivity).
setSensitivity(g, sensitivity) ==
    [g EXCEPT !.sensitivity = sensitivity,
              !.smoothingFactor =
                  (2 * Unit) \div 10 + Round((Unit - sensitivity) * 3, 10)]

\* GestureDetector.getGesture().
getGesture(g) == g.currentGesture

\* A description that classifies the openness whether or not a hand is
\* detected.
getGestureDescription_IgnoringDetected(g) ==
    IF IsNaN(g.currentGesture.openness) THEN "Open Hand"
    ELSE IF g.currentGesture.openness < (3 * Unit) \div 10 THEN "Closed Fist"
    ELSE IF g.currentGesture.openness < (5 * Unit) \div 10 THEN "Partially Closed"
    ELSE IF g.currentGesture.openness < (7 * Unit) \div 10 THEN "Partially Open"
    ELSE "Open Hand"

\* GestureDetector.getGestureDescription(): the text.
getGestureDescription(g) ==
    LET openness == g.currentGesture.openness
    IN  IF ~g.currentGesture.isDetected THEN "Searching..."
        ELSE IF ~IsNaN(openness) /\ openness < (3 * Unit) \div 10 THEN "Closed Fist"
        ELSE IF ~IsNaN(openness) /\ openness < (5 * Unit) \div 10 THEN "Partially Closed"
        ELSE IF ~IsNaN(openness) /\ openness < (7 * Unit) \div 10 THEN "Partially Open"
        ELSE "Open Hand"

\* GestureDetector.pause() and resume().
pause(g) == [g EXCEPT !.isRunning = FALSE]

resume(g) == [g EXCEPT !.isRunning = TRUE]

\* GestureDetector.init() up to camera.start(): the landmark detector is
\* created and the camera is asked to start; the promise stays pending.
GD_init(g) == [g EXCEPT !.hands = "open", !.camera = "starting"]

\* The promise of camera.start() is fulfilled: the camera delivers frames
\* from now on and the then-handler of init() runs.
cameraStarted(g) == [g EXCEPT !.isRunning = TRUE, !.camera = "running"]

\* The promise of camera.start() is rejected: init() rejects too.
cameraFailed(g) == [g EXCEPT !.camera = "failed"]

\* GestureDetector.stop(): camera.stop() ends the frame delivery of a running
\* camera; it leaves a start that is still pending to succeed or fail.
stop(g) ==
    [g EXCEPT !.isRunning = FALSE,
              !.camera = IF g.camera = "running" THEN "stopped" ELSE g.camera]

\* The onFrame callback of init(): whether the frame is sent to the landmark
\* detector.
onFrameSends(g) == g.isRunning /\ g.hands # "null"

\* GestureDetector.dispose(): stop(), then hands.close().
GD_dispose(g) ==
    LET g1 == stop(g)
    IN  [g1 EXCEPT !.hands = IF g1.hands # "null" THEN "closed" ELSE "null"]

\* -------------------------------------------------------------- ParticleSystem
\* World coordinates, colour channels, the clock and the gesture scalars are
\* in counts of 1/Unit; the animation speed is in counts of 1/SpeedUnit.
SpeedUnit == 10

Half == Unit \div 2

\* i / n of the source.
Frac(i, n) == Round(i * Unit, n)

\* const radius = 15
radius == 15 * Unit

\* The number of Math.random() calls generatePattern makes per particle.
patternDraws(pattern) ==
    CASE pattern \in {"spiral", "dna"} -> 2
      [] pattern = "wave" -> 1
      [] pattern = "galaxy" -> 5
      [] OTHER -> 3

\* (Math.random() - 0.5) * radius * 2 on each axis, in call order.
cubePoint(seed) ==
    <<Mul(Random(seed, 1) - Half, 2 * radius),
      Mul(Random(seed, 2) - Half, 2 * radius),
      Mul(Random(seed, 3) - Half, 2 * radius)>>

spherePoint(seed) ==
    LET phi == ACos(2 * Random(seed, 1) - Unit)
        theta == Mul(Random(seed, 2), TwoPi)
        r == Mul(radius, Cbrt(Random(seed, 3)))
    IN  <<Mul(Mul(r, Sin(phi)), Cos(theta)),
          Mul(Mul(r, Sin(phi)), Sin(theta)),
          Mul(r, Cos(phi))>>

torusPoint(seed) ==
    LET torusAngle == Mul(Random(seed, 1), TwoPi)
        tubeAngle == Mul(Random(seed, 2), TwoPi)
        torusRadius == Round(radius * 8, 10)
        tubeRadius == Mul(Round(radius * 3, 10), Random(seed, 3))
        ring == torusRadius + Mul(tubeRadius, Cos(tubeAngle))
    IN  <<Mul(ring, Cos(torusAngle)),
          Mul(tubeRadius, Sin(tubeAngle)),
          Mul(ring, Sin(torusAngle))>>

spiralPoint(n, i, seed) ==
    LET spiralT == Mul(Frac(i, n), 8 * Pi)
        spiralRadius == Mul(radius, Round(2 * Unit, 10) + Round(Frac(i, n) * 8, 10))
    IN  <<Mul(spiralRadius, Cos(spiralT)) + (Random(seed, 1) - Half) * 2,
          Mul(Frac(i, n) - Half, 2 * radius),
          Mul(spiralRadius, Sin(spiralT)) + (Random(seed, 2) - Half) * 2>>

galaxyPoint(seed) ==
    LET arm == (Random(seed, 1) * 3) \div Unit
        armAngle == Round(arm * TwoPi, 3)
        dist == Mul(Random(seed, 2), radius)
        ratio == Round(dist * Unit, radius)
        spread == Round(Unit - ratio, 2)
        galaxyAngle == armAngle + Mul(ratio, TwoPi)
    IN  <<Mul(dist, Cos(galaxyAngle))
              + Mul(Mul(Random(seed, 3) - Half, spread), radius),
          Round(Mul(Mul(Random(seed, 4) - Half, spread), radius) * 3, 10),
          Mul(dist, Sin(galaxyAngle))
              + Mul(Mul(Random(seed, 5) - Half, spread), radius)>>

heartPoint(n, i, seed) ==
    LET ht == Mul(Frac(i, n), TwoPi)
        heartScale == Round(radius * 8, 10)
        cube == Mul(Mul(Sin(ht), Sin(ht)), Sin(ht))
        x == Round(Mul(Round(heartScale * 8, 10), 16 * cube), 16)
        y == Round(Mul(Round(heartScale * 8, 10),
                       13 * Cos(ht) - 5 * Cos(2 * ht) - 2 * Cos(3 * ht)
                           - Cos(4 * ht)), 16)
        z == Round(Mul(Random(seed, 1) - Half, radius), 2)
    IN  <<x + Round((Random(seed, 2) - Half) * 3, 2),
          y + Round((Random(seed, 3) - Half) * 3, 2),
          z>>

dnaPoint(n, i, seed) ==
    LET dnaT == Mul(Frac(i, n), 6 * Pi)
        strand == i % 2
        dnaRadius == Round(radius * 4, 10)
        dnaOffset == strand * Pi
    IN  <<Mul(dnaRadius, Cos(dnaT + dnaOffset)) + (Random(seed, 1) - Half),
          Mul(Frac(i, n) - Half, 3 * radius),
          Mul(dnaRadius, Sin(dnaT + dnaOffset)) + (Random(seed, 2) - Half)>>

wavePoint(n, i, seed) ==
    LET waveX == Round((i % 100) * Unit, 100) - Half
        waveZ == Round((i \div 100) * 100 * Unit, n) - Half
    IN  <<Mul(waveX, 3 * radius),
          Round(Mul(Mul(Sin(Mul(waveX, 4 * Pi)), Cos(Mul(waveZ, 4 * Pi))),
                    radius), 2)
              + (Random(seed, 1) - Half),
          Mul(waveZ, 3 * radius)>>

\* A switch without its default branch: x, y and z stay undefined for a name
\* that matches no case, and the typed array stores them as NaN.
patternPoint_NoDefault(pattern, n, i, seed) ==
    CASE pattern = "sphere" -> spherePoint(seed)
      [] pattern = "cube" -> cubePoint(seed)
      [] pattern = "torus" -> torusPoint(seed)
      [] pattern = "spiral" -> spiralPoint(n, i, seed)
      [] pattern = "galaxy" -> galaxyPoint(seed)
      [] pattern = "heart" -> heartPoint(n, i, seed)
      [] pattern = "dna" -> dnaPoint(n, i, seed)
      [] pattern = "wave" -> wavePoint(n, i, seed)
      [] OTHER -> <<NaN, NaN, NaN>>

\* The body of generatePattern's loop for particle i (0-based) of n: the
\* switch on the pattern name, an unknown name taking the default branch.
patternPoint(pattern, n, i, seed) ==
    CASE pattern = "sphere" -> spherePoint(seed)
      [] pattern = "cube" -> cubePoint(seed)
      [] pattern = "torus" -> torusPoint(seed)
      [] pattern = "spiral" -> spiralPoint(n, i, seed)
      [] pattern = "galaxy" -> galaxyPoint(seed)
      [] pattern = "heart" -> heartPoint(n, i, seed)
      [] pattern = "dna" -> dnaPoint(n, i, seed)
      [] pattern = "wave" -> wavePoint(n, i, seed)
      [] OTHER -> cubePoint(seed)

RECURSIVE patternLoop(_, _, _, _)
\* The positions of particles 0..k-1, each drawing from the generator in turn.
patternLoop(pattern, n, k, seed) ==
    IF k = 0 THEN <<>>
    ELSE patternLoop(pattern, n, k - 1, seed)
         \o patternPoint(pattern, n, k - 1,
                         SeedAfter(seed, (k - 1) * patternDraws(pattern)))

\* ParticleSystem.generatePattern(pattern) for particleCount n: the flat
\* array of 3n coordinates and the generator's state afterwards.
generatePattern(pattern, n, seed) ==
    [positions |-> patternLoop(pattern, n, n, seed),
     seed |-> SeedAfter(seed, n * patternDraws(pattern))]

\* A colour is [r, g, b]; new THREE.Color(hex) from the three bytes of hex.
Color(hex) ==
    [r |-> Round(hex[1] * Unit, 255),
     g |-> Round(hex[2] * Unit, 255),
     b |-> Round(hex[3] * Unit, 255)]

\* new THREE.Color().lerpColors(c1, c2, t)
lerpColors(c1, c2, t) ==
    [r |-> c1.r + Mul(c2.r - c1.r, t),
     g |-> c1.g + Mul(c2.g - c1.g, t),
     b |-> c1.b + Mul(c2.b - c1.b, t)]

\* color.getHSL(hsl)
getHSL(c) ==
    LET max == Max(c.r, Max(c.g, c.b))
        min == Min(c.r, Min(c.g, c.b))
        lightness == Round(min + max, 2)
        delta == max - min
        sextant == IF max = c.r
                   THEN Round((c.g - c.b) * Unit, delta)
                        + (IF c.g < c.b THEN 6 * Unit ELSE 0)
                   ELSE IF max = c.g
                   THEN Round((c.b - c.r) * Unit, delta) + 2 * Unit
                   ELSE Round((c.r - c.g) * Unit, delta) + 4 * Unit
    IN  IF min = max THEN [h |-> 0, s |-> 0, l |-> lightness]
        ELSE [h |-> Round(sextant, 6),
              s |-> IF lightness <= Half
                    THEN Round(delta * Unit, max + min)
                    ELSE Round(delta * Unit, 2 * Unit - max - min),
              l |-> lightness]

\* hue2rgb(p, q, t) of color.setHSL
hue2rgb(p, q, t) ==
    LET w == IF t < 0 THEN t + Unit ELSE IF t > Unit THEN t - Unit ELSE t
    IN  IF 6 * w < Unit THEN p + Mul((q - p) * 6, w)
        ELSE IF 2 * w < Unit THEN q
        ELSE IF 3 * w < 2 * Unit
        THEN p + Mul((q - p) * 6, Round(2 * Unit, 3) - w)
        ELSE p

\* color.setHSL(h, s, l)
setHSL(h, s, l) ==
    LET hh == h % Unit
        ss == Max(0, Min(Unit, s))
        ll == Max(0, Min(Unit, l))
        p == IF ll <= Half THEN Mul(ll, Unit + ss) ELSE ll + ss - Mul(ll, ss)
        q == 2 * ll - p
    IN  IF ss = 0 THEN [r |-> ll, g |-> ll, b |-> ll]
        ELSE [r |-> hue2rgb(q, p, hh + Round(Unit, 3)),
              g |-> hue2rgb(q, p, hh),
              b |-> hue2rgb(q, p, hh - Round(Unit, 3))]

\* The gradient colour as interpolated, without the boost.
particleColor_Unboosted(primary, secondary, i, n) ==
    <<lerpColors(primary, secondary, Frac(i, n)).r,
      lerpColors(primary, secondary, Frac(i, n)).g,
      lerpColors(primary, secondary, Frac(i, n)).b>>

\* The colour of particle i of n: the gradient between the two colours at
\* t = i / n, then saturation * 1.2 capped at 1 and lightness * 1.1 capped
\* at 0.7.
particleColor(primary, secondary, i, n) ==
    LET color == lerpColors(primary, secondary, Frac(i, n))
        hsl == getHSL(color)
        out == setHSL(hsl.h,
                      Min(Round(hsl.s * 12, 10), Unit),
                      Min(Round(hsl.l * 11, 10), Round(7 * Unit, 10)))
    IN  <<out.r, out.g, out.b>>

RECURSIVE colorLoop(_, _, _, _)
\* The flat colour array of particles 0..k-1.
colorLoop(primary, secondary, n, k) ==
    IF k = 0 THEN <<>>
    ELSE colorLoop(primary, secondary, n, k - 1)
         \o particleColor(primary, secondary, k - 1, n)

\* The colours of the constructor: 0x00d4ff and 0xff00d4.
PrimaryHex == <<0, 212, 255>>

SecondaryHex == <<255, 0, 212>>

\* arr[0..m-1] = src[0..m-1] of a JavaScript array: elements past the end of
\* arr are appended, elements of arr past m are kept.
AssignPrefix(arr, src, m) ==
    [k \in 1..Max(Len(arr), m) |-> IF k <= m THEN src[k] ELSE arr[k]]

\* arr[k - 1] of a JavaScript array read as a number: undefined (NaN in
\* arithmetic) past the end.
At(arr, k) == IF k <= Len(arr) THEN arr[k] ELSE NaN

\* An allocation that keeps the array of current positions.
allocate_KeepingCurrent(p, gen) ==
    [ps |-> [p EXCEPT
               !.originalPositions = gen.positions,
               !.targetPositions = gen.positions,
               !.colors = colorLoop(p.primaryColor, p.secondaryColor,
                                    p.particleCount, p.particleCount),
               !.inScene = TRUE],
     seed |-> SeedAfter(gen.seed, 3 * p.particleCount)]

\* The allocation of createParticles, gen being what generatePattern
\* returned.
allocate(p, gen) ==
    [ps |-> [p EXCEPT
               !.positions = gen.positions,
               !.originalPositions = gen.positions,
               !.targetPositions = gen.positions,
               !.colors = colorLoop(p.primaryColor, p.secondaryColor,
                                    p.particleCount, p.particleCount),
               !.inScene = TRUE],
     seed |-> SeedAfter(gen.seed, 3 * p.particleCount)]

\* ParticleSystem.createParticles(): the three position arrays and the
\* colour array are allocated anew for the current particleCount.  The size,
\* alpha and twinkle attributes (three Math.random() calls per particle, read
\* by the shaders only) are represented by the generator calls they make.
createParticles(p, seed) ==
    allocate(p, generatePattern(p.currentPattern, p.particleCount, seed))

\* A setPattern that moves the targets and leaves the pattern at rest as it
\* was.
assignPattern_TargetsOnly(p, pattern, gen) ==
    [ps |-> [p EXCEPT
               !.currentPattern = pattern,
               !.targetPositions =
                   AssignPrefix(p.targetPositions, gen.positions,
                                3 * p.particleCount)],
     seed |-> gen.seed]

\* A setPattern that also colours the particles anew, secondary colour first.
assignPattern_Recolouring(p, pattern, gen) ==
    [ps |-> [p EXCEPT
               !.currentPattern = pattern,
               !.targetPositions =
                   AssignPrefix(p.targetPositions, gen.positions,
                                3 * p.particleCount),
               !.originalPositions =
                   AssignPrefix(p.originalPositions, gen.positions,
                                3 * p.particleCount),
               !.colors = colorLoop(p.secondaryColor, p.primaryColor,
                                    p.particleCount, p.particleCount)],
     seed |-> gen.seed]

\* The loop of setPattern, gen being what generatePattern returned.
assignPattern(p, pattern, gen) ==
    [ps |-> [p EXCEPT
               !.currentPattern = pattern,
               !.targetPositions =
                   AssignPrefix(p.targetPositions, gen.positions,
                                3 * p.particleCount),
               !.originalPositions =
                   AssignPrefix(p.originalPositions, gen.positions,
                                3 * p.particleCount)],
     seed |-> gen.seed]

\* ParticleSystem.setPattern(pattern)
setPattern(p, pattern, seed) ==
    assignPattern(p, pattern, generatePattern(pattern, p.particleCount, seed))

\* ParticleSystem.setColors(primary, secondary)
setColors(p, primary, secondary) ==
    [p EXCEPT !.primaryColor = Color(primary),
              !.secondaryColor = Color(secondary),
              !.colors = AssignPrefix(p.colors,
                                      colorLoop(Color(primary), Color(secondary),
                                                p.particleCount, p.particleCount),
                                      3 * p.particleCount)]

\* setParticleCount without the call of createParticles.
setParticleCount_NoReallocation(p, count, seed) ==
    [ps |-> [p EXCEPT !.particleCount = count], seed |-> seed]

\* ParticleSystem.setParticleCount(count)
setParticleCount(p, count, seed) ==
    createParticles([p EXCEPT !.particleCount = count], seed)

\* ParticleSystem.setAnimationSpeed(speed)
setAnimationSpeed(p, speed) == [p EXCEPT !.animationSpeed = speed]

\* A scale that falls as the hand opens.
gestureScale_Inverted(openness) ==
    IF IsNaN(openness) THEN NaN ELSE 2 * Unit - Round(openness * 17, 10)

\* const scale = 0.3 + openness * 1.7, whatever number openness is.
gestureScale(openness) ==
    IF IsNaN(openness) THEN NaN
    ELSE Round(3 * Unit, 10) + Round(openness * 17, 10)

\* gestureTarget with the dispersion applied at every openness.
gestureTarget_AlwaysSpread(p, i, openness, position, sensitivity, seed) ==
    LET scale == gestureScale(openness)
        sx == Mul(At(p.originalPositions, 3 * i + 1), scale)
        sy == Mul(At(p.originalPositions, 3 * i + 2), scale)
        sz == Mul(At(p.originalPositions, 3 * i + 3), scale)
        dispersion == Mul((openness - Round(7 * Unit, 10)) * 3, sensitivity)
        spread == ~IsNaN(openness)
        dx == IF spread THEN Mul(Random(seed, 1) - Half, dispersion) * 10 ELSE 0
        dy == IF spread THEN Mul(Random(seed, 2) - Half, dispersion) * 10 ELSE 0
        dz == IF spread THEN Mul(Random(seed, 3) - Half, dispersion) * 10 ELSE 0
        gesturePull == Round(sensitivity * 3, 10)
    IN  <<Plus(Plus(sx, dx), Mul((position.x - Half) * 20, gesturePull)),
          Plus(Plus(sy, dy), Mul((Half - position.y) * 20, gesturePull)),
          Plus(sz, dz)>>

\* gestureTarget with the image's y axis not inverted.
gestureTarget_YNotInverted(p, i, openness, position, sensitivity, seed) ==
    LET scale == gestureScale(openness)
        sx == Mul(At(p.originalPositions, 3 * i + 1), scale)
        sy == Mul(At(p.originalPositions, 3 * i + 2), scale)
        sz == Mul(At(p.originalPositions, 3 * i + 3), scale)
        dispersion == Mul((openness - Round(7 * Unit, 10)) * 3, sensitivity)
        spread == openness > Round(7 * Unit, 10)
        dx == IF spread THEN Mul(Random(seed, 1) - Half, dispersion) * 10 ELSE 0
        dy == IF spread THEN Mul(Random(seed, 2) - Half, dispersion) * 10 ELSE 0
        dz == IF spread THEN Mul(Random(seed, 3) - Half, dispersion) * 10 ELSE 0
        gesturePull == Round(sensitivity * 3, 10)
    IN  <<Plus(Plus(sx, dx), Mul((position.x - Half) * 20, gesturePull)),
          Plus(Plus(sy, dy), Mul((position.y - Half) * 20, gesturePull)),
          Plus(sz, dz)>>

\* The target of particle i (0-based) in updateGestureInfluence; seed is the
\* generator's state when the loop reaches the particle.
gestureTarget(p, i, openness, position, sensitivity, seed) ==
    LET scale == gestureScale(openness)
        sx == Mul(At(p.originalPositions, 3 * i + 1), scale)
        sy == Mul(At(p.originalPositions, 3 * i + 2), scale)
        sz == Mul(At(p.originalPositions, 3 * i + 3), scale)
        dispersion == Mul((openness - Round(7 * Unit, 10)) * 3, sensitivity)
        spread == openness > Round(7 * Unit, 10)
        dx == IF spread THEN Mul(Random(seed, 1) - Half, dispersion) * 10 ELSE 0
        dy == IF spread THEN Mul(Random(seed, 2) - Half, dispersion) * 10 ELSE 0
        dz == IF spread THEN Mul(Random(seed, 3) - Half, dispersion) * 10 ELSE 0
        gesturePull == Round(sensitivity * 3, 10)
    IN  <<Plus(Plus(sx, dx), Mul((position.x - Half) * 20, gesturePull)),
          Plus(Plus(sy, dy), Mul((Half - position.y) * 20, gesturePull)),
          Plus(sz, dz)>>

\* The Math.random() calls updateGestureInfluence makes per particle.
gestureDraws(openness) == IF openness > Round(7 * Unit, 10) THEN 3 ELSE 0

RECURSIVE gestureLoop(_, _, _, _, _, _)
\* The targets of particles 0..k-1.
gestureLoop(p, k, openness, position, sensitivity, seed) ==
    IF k = 0 THEN <<>>
    ELSE gestureLoop(p, k - 1, openness, position, sensitivity, seed)
         \o gestureTarget(p, k - 1, openness, position, sensitivity,
                          SeedAfter(seed, (k - 1) * gestureDraws(openness)))

\* ParticleSystem.updateGestureInfluence(openness, position, sensitivity)
updateGestureInfluence(p, openness, position, sensitivity, seed) ==
    [ps |-> [p EXCEPT
               !.gestureInfluence = openness,
               !.gesturePosition = position,
               !.targetPositions =
                   AssignPrefix(p.targetPositions,
                                gestureLoop(p, p.particleCount, openness,
                                            position, sensitivity, seed),
                                3 * p.particleCount)],
     seed |-> SeedAfter(seed, p.particleCount * gestureDraws(openness))]

\* An interpolation step that jumps to the target.
towardTarget_Snap(pos, target, speed) == target

\* One coordinate of the interpolation step:
\* positions[k] += (targetPositions[k] - positions[k]) * lerpFactor with
\* lerpFactor = 0.05 * animationSpeed.
towardTarget(pos, target, speed) ==
    IF IsNaN(pos) \/ IsNaN(target) THEN NaN
    ELSE pos + Round((target - pos) * speed, 20 * SpeedUnit)

\* Math.sin(time * floatSpeed + i * 0.1) * floatAmount for particle i of n.
floatOffset(time, i, n, speed) ==
    LET floatSpeed == Half + Round(Frac(i, n), 2)
        floatAmount == Round(Unit * speed, 10 * SpeedUnit)
    IN  Mul(Sin(Mul(time, floatSpeed) + i * Round(Unit, 10)), floatAmount)

\* The position of particle i after the loop body of animate at clock time.
animatePoint(p, i, time) ==
    <<towardTarget(At(p.positions, 3 * i + 1), At(p.targetPositions, 3 * i + 1),
                   p.animationSpeed),
      Plus(towardTarget(At(p.positions, 3 * i + 2),
                        At(p.targetPositions, 3 * i + 2), p.animationSpeed),
           floatOffset(time, i, p.particleCount, p.animationSpeed)),
      towardTarget(At(p.positions, 3 * i + 3), At(p.targetPositions, 3 * i + 3),
                   p.animationSpeed)>>

RECURSIVE animateLoop(_, _, _)
\* The positions of particles 0..k-1 after the loop of animate.
animateLoop(p, k, time) ==
    IF k = 0 THEN <<>>
    ELSE animateLoop(p, k - 1, time) \o animatePoint(p, k - 1, time)

\* animate() with updateGestureInfluence in the tick: the targets are
\* recomputed from the stored gesture before the interpolation.
animate_RecomputingTargets(p) ==
    IF ~p.isAnimating THEN [ps |-> p, ops |-> <<>>]
    ELSE [ps |-> [p EXCEPT
                    !.targetPositions =
                        gestureLoop(p, p.particleCount, p.gestureInfluence,
                                    p.gesturePosition, Unit, 0),
                    !.time = p.time + Round(16 * p.animationSpeed, SpeedUnit)],
          ops |-> <<"requestAnimationFrame", "updateGestureInfluence",
                    "interpolate", "render">>]

\* animate() without the isAnimating guard of its first line.
animate_Unguarded(p) ==
    [ps |-> [p EXCEPT
               !.time = p.time + Round(16 * p.animationSpeed, SpeedUnit),
               !.positions =
                   AssignPrefix(p.positions,
                                animateLoop(p, p.particleCount,
                                            p.time + Round(16 * p.animationSpeed,
                                                           SpeedUnit)),
                                3 * p.particleCount),
               !.rotationY = p.rotationY + Round(p.animationSpeed, SpeedUnit)],
     ops |-> <<"requestAnimationFrame", "interpolate", "render">>]

\* animate() that moves the targets along with the positions.
animate_MovingTargets(p) ==
    IF ~p.isAnimating THEN [ps |-> p, ops |-> <<>>]
    ELSE [ps |-> [p EXCEPT
                    !.time = p.time + Round(16 * p.animationSpeed, SpeedUnit),
                    !.positions =
                        AssignPrefix(p.positions,
                                     animateLoop(p, p.particleCount,
                                                 p.time + Round(16 * p.animationSpeed,
                                                                SpeedUnit)),
                                     3 * p.particleCount),
                    !.targetPositions =
                        AssignPrefix(p.targetPositions,
                                     animateLoop(p, p.particleCount,
                                                 p.time + Round(16 * p.animationSpeed,
                                                                SpeedUnit)),
                                     3 * p.particleCount),
                    !.rotationY = p.rotationY
                                  + Round(p.animationSpeed, SpeedUnit)],
          ops |-> <<"requestAnimationFrame", "interpolate", "render">>]

\* ParticleSystem.animate(): the new object and what the call did, in order
\* (the continuation it scheduled with requestAnimationFrame, the
\* interpolation loop, the draw).
animate(p) ==
    IF ~p.isAnimating THEN [ps |-> p, ops |-> <<>>]
    ELSE LET time == p.time + Round(16 * p.animationSpeed, SpeedUnit)
         IN  [ps |-> [p EXCEPT
                        !.time = time,
                        !.positions =
                            AssignPrefix(p.positions,
                                         animateLoop(p, p.particleCount, time),
                                         3 * p.particleCount),
                        !.rotationY = p.rotationY
                                      + Round(p.animationSpeed, SpeedUnit)],
              ops |-> <<"requestAnimationFrame", "interpolate", "render">>]

\* ParticleSystem.reset()
reset(p) ==
    [p EXCEPT !.gestureInfluence = 0,
              !.gesturePosition = [x |-> Half, y |-> Half],
              !.targetPositions =
                  AssignPrefix(p.targetPositions, p.originalPositions,
                               3 * p.particleCount),
              !.rotationY = 0]

\* ParticleSystem.dispose(): container.removeChild(renderer.domElement)
\* raises NotFoundError when the canvas is no longer a child of the
\* container.
PS_dispose(p) ==
    [ps |-> [p EXCEPT !.isAnimating = FALSE,
                      !.inScene = FALSE,
                      !.rendererDisposed = TRUE,
                      !.canvasAttached = FALSE],
     threw |-> IF p.canvasAttached THEN "none" ELSE "NotFoundError"]

\* The fields of new ParticleSystem(container) before init() runs, for a
\* default particle count of n.
PS_fields(n) ==
    [particleCount |-> n,
     animationSpeed |-> SpeedUnit,
     currentPattern |-> "sphere",
     primaryColor |-> Color(PrimaryHex),
     secondaryColor |-> Color(SecondaryHex),
     targetPositions |-> <<>>,
     originalPositions |-> <<>>,
     positions |-> <<>>,
     colors |-> <<>>,
     gestureInfluence |-> 0,
     gesturePosition |-> [x |-> 0, y |-> 0],
     time |-> 0,
     rotationY |-> 0,
     isAnimating |-> TRUE,
     inScene |-> FALSE,
     rendererDisposed |-> FALSE,
     canvasAttached |-> FALSE]

\* The last statement of init(): this.animate().
firstFrame(made) == [seed |-> made.seed] @@ animate(made.ps)

\* new ParticleSystem(container): init() appends the canvas, creates the
\* particles and runs the first animate() before the constructor returns.
NewParticleSystem(n, seed) ==
    firstFrame(createParticles([PS_fields(n) EXCEPT !.canvasAttached = TRUE],
                               seed))

\* ================================================ the binary threshold page
\* The second page of the repository: one script whose globals are the
\* fields of simple.  A hand is open or closed, and the whole formation is
\* scaled.
PagePatterns == {"sphere", "cube", "random"}

\* The colours the colour picker may deliver.
PageColors == {<<0, 255, 0>>, <<255, 0, 0>>}

\* The scales onHandsResults assigns: 1.5, 0.3 and 1.0.
OpenScale == (15 * Unit) \div 10

ClosedScale == (3 * Unit) \div 10

NeutralScale == Unit

\* One particle of createParticleSystem, from generator state seed.
pagePoint(pattern, seed) ==
    CASE pattern = "sphere" ->
             LET theta == Mul(Random(seed, 1), TwoPi)
                 phi == ACos(2 * Random(seed, 2) - Unit)
                 r == 15 * Unit + Random(seed, 3) * 10
             IN  <<Mul(Mul(r, Sin(phi)), Cos(theta)),
                   Mul(Mul(r, Sin(phi)), Sin(theta)),
                   Mul(r, Cos(phi))>>
      [] pattern = "cube" ->
             <<(Random(seed, 1) - Half) * 25,
               (Random(seed, 2) - Half) * 25,
               (Random(seed, 3) - Half) * 25>>
      [] OTHER ->
             <<(Random(seed, 1) - Half) * 30,
               (Random(seed, 2) - Half) * 30,
               (Random(seed, 3) - Half) * 30>>

RECURSIVE pageLoop(_, _, _)
\* The coordinates of particles 0..k-1.
pageLoop(pattern, k, seed) ==
    IF k = 0 THEN <<>>
    ELSE pageLoop(pattern, k - 1, seed)
         \o pagePoint(pattern, SeedAfter(seed, 3 * (k - 1)))

\* createParticleSystem(pattern): a new geometry whose positions and
\* initialPositions both hold the generated coordinates, and a new material
\* of the current colour.
createParticleSystem(page, pattern, seed) ==
    [page |-> [page EXCEPT
                 !.positions = pageLoop(pattern, page.particleCount, seed),
                 !.initialPositions = pageLoop(pattern, page.particleCount, seed),
                 !.materialColor = page.currentColor,
                 !.rotationX = 0,
                 !.rotationY = 0],
     seed |-> SeedAfter(seed, 3 * page.particleCount)]

\* An animate() that sets the scale to its target at once.
Page_animate_Snap(page) ==
    [page EXCEPT
       !.currentScale = page.targetScale,
       !.positions = [k \in 1..(3 * page.particleCount) |->
                         Mul(page.initialPositions[k], page.targetScale)],
       !.rotationY = page.rotationY + 2,
       !.rotationX = page.rotationX + 1,
       !.rendered = [k \in 1..(3 * page.particleCount) |->
                        Mul(page.initialPositions[k], page.targetScale)]]

\* animate() of the page: the scale moves by 0.05 of its gap to the target,
\* every coordinate becomes the initial one times the scale, and the scene is
\* rendered.  Rotations are counted in steps of 0.0005.
Page_animate(page) ==
    [page EXCEPT
       !.currentScale = page.currentScale
                        + Mul(page.targetScale - page.currentScale, Unit \div 20),
       !.positions = [k \in 1..(3 * page.particleCount) |->
                         Mul(page.initialPositions[k],
                             page.currentScale
                             + Mul(page.targetScale - page.currentScale,
                                   Unit \div 20))],
       !.rotationY = page.rotationY + 2,
       !.rotationX = page.rotationX + 1,
       !.rendered = [k \in 1..(3 * page.particleCount) |->
                        Mul(page.initialPositions[k],
                            page.currentScale
                            + Mul(page.targetScale - page.currentScale,
                                  Unit \div 20))]]

\* distance(p1, p2) > d of the page's distance function, compared exactly.
distanceExceeds(p1, p2, d) ==
    (p1.x - p2.x) * (p1.x - p2.x) + (p1.y - p2.y) * (p1.y - p2.y)
        + (p1.z - p2.z) * (p1.z - p2.z) > d * d

\* extendedCount of detectHandGesture.
extendedCount(landmarks) ==
    (IF distanceExceeds(LM(landmarks, 4), LM(landmarks, 2), Unit \div 10)
     THEN 1 ELSE 0)
    + (IF LM(landmarks, 8).y < LM(landmarks, 5).y THEN 1 ELSE 0)
    + (IF LM(landmarks, 12).y < LM(landmarks, 9).y THEN 1 ELSE 0)
    + (IF LM(landmarks, 16).y < LM(landmarks, 13).y THEN 1 ELSE 0)
    + (IF LM(landmarks, 20).y < LM(landmarks, 17).y THEN 1 ELSE 0)

\* detectHandGesture as the comment above its test reads: open at four or
\* five extended fingers.
detectHandGesture_FourOrMore(landmarks) ==
    IF extendedCount(landmarks) >= 4 THEN "open" ELSE "closed"

\* detectHandGesture(landmarks)
detectHandGesture(landmarks) ==
    IF extendedCount(landmarks) >= 3 THEN "open" ELSE "closed"

\* onHandsResults(results)
onHandsResults(page, results) ==
    IF Len(results.hands) > 0
    THEN IF detectHandGesture(results.hands[1].landmarks) = "open"
         THEN [page EXCEPT !.isHandOpen = TRUE,
                           !.targetScale = OpenScale,
                           !.gestureText = "Open Hand"]
         ELSE IF detectHandGesture(results.hands[1].landmarks) = "closed"
         THEN [page EXCEPT !.isHandOpen = FALSE,
                           !.targetScale = ClosedScale,
                           !.gestureText = "Closed Fist"]
         ELSE page
    ELSE [page EXCEPT !.targetScale = NeutralScale,
                      !.gestureText = "No Hand Detected"]

\* The globals of the script as it declares them, before DOMContentLoaded.
PageGlobals ==
    [loaded |-> TRUE,
     particleCount |-> PageCount,
     currentPattern |-> "sphere",
     currentColor |-> <<0, 255, 0>>,
     isHandOpen |-> FALSE,
     targetScale |-> NeutralScale,
     currentScale |-> NeutralScale,
     positions |-> <<>>,
     initialPositions |-> <<>>,
     materialColor |-> <<0, 255, 0>>,
     rotationX |-> 0,
     rotationY |-> 0,
     rendered |-> <<>>,
     gestureText |-> ""]

\* ---------------------------------------------------------- sample hands
\* A hand whose fingers in ext (of index 2, middle 3, ring 4, pinky 5) point
\* up and whose other fingers are curled below their knuckles; the thumb's
\* tip is at horizontal distance 2 * reach from its base, so at distance
\* reach from landmark 2, the midpoint.
HandWith(ext, reach) ==
    HandOf(P(500, 900), BasesAt(500, 900),
           [f \in 1..5 |->
               IF f = 1
               THEN P(BasesAt(500, 900)[1].x - 2 * reach, BasesAt(500, 900)[1].y)
               ELSE IF f \in ext
               THEN P(BasesAt(500, 900)[f].x, BasesAt(500, 900)[f].y - 300)
               ELSE P(BasesAt(500, 900)[f].x, BasesAt(500, 900)[f].y + 60)])

\* A hand whose middle and ring fingers point up, whose index tip is level
\* with its knuckle and whose thumb is short of 0.1: two fingers extended.
LevelHand ==
    [k \in 1..NumLandmarks |->
        IF k = 9 THEN HandWith({3, 4}, Unit \div 20)[6]
        ELSE HandWith({3, 4}, Unit \div 20)[k]]

\* The thumb reaches: short of 0.1, exactly 0.1 and beyond it.
ThumbReaches == {Unit \div 20, Unit \div 10, (15 * Unit) \div 100}

FingerSets == {{2}, {2, 3, 4}, {2, 3, 4, 5}}

\* Index and middle finger up with each reach of the thumb, the other finger
\* sets with a short thumb, and the level hand.
PageHands ==
    {HandWith({2, 3}, reach) : reach \in ThumbReaches}
        \cup {HandWith(ext, Unit \div 20) : ext \in FingerSets}
        \cup {LevelHand}

PageResults == {NoHandResults} \cup {HandResults(h) : h \in PageHands}

\* ---------------------------------------------------------------------- state
VARIABLES
    gd,        \* the GestureDetector
    ps,        \* the ParticleSystem
    app,       \* the App
    seed,      \* the hidden state of Math.random()
    raf,       \* the animate continuations requestAnimationFrame holds
    inFlight,  \* the frames sent to the landmark detector and not yet answered
    notes,     \* the callbacks the last handler invoked, in order
    ops,       \* what the last handler did, in order
    threw,     \* the exception the last handler raised, "none" if none
    frameLog,  \* history: the kind of every frame onResults was called with
    edgeLog,   \* history: every onHandDetected / onHandLost, with its frame
    controls,  \* history: the number of control events so far
    ticks,     \* history: the number of animation frames so far
    teardowns, \* history: the number of teardown calls so far
    lastResults, \* history: the results onResults was last called with
    simple,    \* the page of the binary threshold variant
    replaced   \* the instances an App.start() call replaced and left running

vars == <<gd, ps, app, seed, raf, inFlight, notes, ops, threw, frameLog,
          edgeLog, controls, ticks, teardowns, lastResults, simple, replaced>>

\* The text the catch branch of App.start() puts into the loading overlay.
ErrorText == "Error: Camera access denied or not available"

\* No start() call has replaced anything: restarts counts the start() calls
\* made while the App held a ParticleSystem, loops the render loops of
\* replaced ParticleSystems that still run, cameras the cameras of replaced
\* GestureDetectors that are starting or running.
NoneReplaced == [restarts |-> 0, loops |-> 0, cameras |-> <<>>]

\* The page of the binary threshold variant is not loaded.
NoPage == [loaded |-> FALSE]

\* new App(): nothing is created before start().  loaderText is the text of
\* the loading overlay, "" standing for the text of the page as loaded.
NewApp ==
    [particleSystem |-> FALSE,
     gestureDetector |-> FALSE,
     isInitialized |-> FALSE,
     gestureEnabled |-> TRUE,
     gestureSensitivity |-> Unit,
     gestureText |-> "",
     loaderText |-> ""]

\* A catch branch that goes on as if init() had succeeded.
startCatch_MarkingInitialized(a) ==
    [a EXCEPT !.loaderText = ErrorText, !.isInitialized = TRUE]

\* The catch branch of App.start(): the error is shown in the loading
\* overlay; a ParticleSystem is built only if there is none, and there is
\* one whenever init() was reached.
startCatch(a) ==
    [a EXCEPT !.loaderText = ErrorText, !.particleSystem = TRUE]

\* The edge notifications among the callbacks of frame number idx.
Edges(ns, idx) ==
    LET keep == SelectSeq(ns, LAMBDA n : n.cb \in {"onHandDetected", "onHandLost"})
    IN  [k \in 1..Len(keep) |-> [cb |-> keep[k].cb, frame |-> idx]]

\* The landmark detector calls back with results: onResults runs.
ProcessResults(results) ==
    LET out == onResults(gd, results)
    IN  /\ gd' = out.gd
        /\ notes' = out.notes
        /\ threw' = out.threw
        /\ frameLog' = Append(frameLog, FrameKind(results))
        /\ lastResults' = results
        /\ edgeLog' = edgeLog \o Edges(out.notes, Len(frameLog) + 1)

\* ----------------------------------------------- the estimator on its own
\* A detector whose three callbacks are registered and whose camera runs.
GestureInit ==
    /\ gd = [NewGestureDetector EXCEPT !.hands = "open", !.camera = "running",
                                       !.isRunning = TRUE,
                                       !.onGestureUpdate = TRUE,
                                       !.onHandDetected = TRUE,
                                       !.onHandLost = TRUE]
    /\ ps = PS_fields(MaxCount)
    /\ app = NewApp
    /\ seed = 0
    /\ raf = 0
    /\ inFlight = <<>>
    /\ notes = <<>>
    /\ ops = <<>>
    /\ threw = "none"
    /\ frameLog = <<>>
    /\ edgeLog = <<>>
    /\ controls = 0
    /\ ticks = 0
    /\ teardowns = 0
    /\ lastResults = NoHandResults
    /\ simple = NoPage
    /\ replaced = NoneReplaced

GD_OnResults ==
    /\ Len(frameLog) < MaxFrames
    /\ \E results \in AllResults : ProcessResults(results)
    /\ ops' = <<"onResults">>
    /\ UNCHANGED <<replaced, simple, ps, app, seed, raf, inFlight, controls, ticks, teardowns>>

GD_SetSensitivity ==
    /\ controls < MaxControls
    /\ controls' = controls + 1
    /\ \E s \in SensitivityValues : gd' = setSensitivity(gd, s)
    /\ notes' = <<>>
    /\ ops' = <<"setSensitivity">>
    /\ threw' = "none"
    /\ UNCHANGED <<replaced, lastResults, simple, ps, app, seed, raf, inFlight, frameLog, edgeLog, ticks,
                   teardowns>>

GestureNext == GD_OnResults \/ GD_SetSensitivity

SpecGesture == GestureInit /\ [][GestureNext]_vars

\* ------------------------------------------- the particle engine on its own
PatternValues ==
    {"sphere", "cube", "torus", "spiral", "galaxy", "heart", "dna", "wave",
     "ring"}

CountValues == {1, MaxCount}

SpeedValues == {SpeedUnit \div 2, 2 * SpeedUnit, 50 * SpeedUnit}

ColorValues == {<<PrimaryHex, SecondaryHex>>, <<<<255, 255, 255>>, <<0, 0, 0>>>>}

\* The openness a caller of updateGestureInfluence may pass: the range of the
\* estimator, and a number on either side of it.
OpennessValues == {0 - Half, 0, Half, Unit, 2 * Unit}

PositionValues == {[x |-> Half, y |-> Half], [x |-> Round(9 * Unit, 10), y |-> Round(Unit, 10)]}

\* The states Math.random() may be in when the page loads.
SeedValues == {0, SeedMod - 3}

\* What the steps of the engine leave alone.
EngineFrame ==
    UNCHANGED <<replaced, lastResults, simple, gd, app, inFlight, notes, frameLog, edgeLog>>

\* A ParticleSystem fresh from its constructor, whose first animate() has
\* scheduled the next one.
EngineInit ==
    /\ \E s \in SeedValues :
           \E made \in {NewParticleSystem(MaxCount, s)} :
               /\ ps = made.ps
               /\ seed = made.seed
               /\ ops = made.ops
    /\ raf = 1
    /\ gd = NewGestureDetector
    /\ app = NewApp
    /\ inFlight = <<>>
    /\ notes = <<>>
    /\ threw = "none"
    /\ frameLog = <<>>
    /\ edgeLog = <<>>
    /\ controls = 0
    /\ ticks = 1
    /\ teardowns = 0
    /\ lastResults = NoHandResults
    /\ simple = NoPage
    /\ replaced = NoneReplaced

\* A setter call: one more control event.
Call(op) ==
    /\ controls < MaxCalls
    /\ controls' = controls + 1
    /\ ops' = <<op>>
    /\ threw' = "none"
    /\ UNCHANGED <<raf, ticks, teardowns>>
    /\ EngineFrame

PS_SetPattern ==
    /\ Call("setPattern")
    /\ \E pattern \in PatternValues :
           \E out \in {setPattern(ps, pattern, seed)} :
               /\ ps' = out.ps
               /\ seed' = out.seed

PS_SetParticleCount ==
    /\ Call("setParticleCount")
    /\ \E count \in CountValues :
           \E out \in {setParticleCount(ps, count, seed)} :
               /\ ps' = out.ps
               /\ seed' = out.seed

PS_SetColors ==
    /\ Call("setColors")
    /\ \E c \in ColorValues : ps' = setColors(ps, c[1], c[2])
    /\ UNCHANGED seed

PS_SetAnimationSpeed ==
    /\ Call("setAnimationSpeed")
    /\ \E speed \in SpeedValues : ps' = setAnimationSpeed(ps, speed)
    /\ UNCHANGED seed

PS_UpdateGestureInfluence ==
    /\ Call("updateGestureInfluence")
    /\ \E openness \in OpennessValues, position \in PositionValues,
          sensitivity \in SensitivityValues :
           \E out \in {updateGestureInfluence(ps, openness, position,
                                               sensitivity, seed)} :
               /\ ps' = out.ps
               /\ seed' = out.seed

PS_Reset ==
    /\ Call("reset")
    /\ ps' = reset(ps)
    /\ UNCHANGED seed

\* The browser runs a continuation requestAnimationFrame holds: animate().
AnimationFrame ==
    /\ raf > 0
    /\ ticks < MaxTicks
    /\ ticks' = ticks + 1
    /\ \E out \in {animate(ps)} :
           /\ ps' = out.ps
           /\ ops' = out.ops
           /\ raf' = raf - 1 + Len(SelectSeq(out.ops,
                                  LAMBDA o : o = "requestAnimationFrame"))
    /\ threw' = "none"
    /\ UNCHANGED <<seed, controls, teardowns>>

PS_AnimationFrame == AnimationFrame /\ EngineFrame

PS_Dispose ==
    /\ teardowns < MaxDisposals
    /\ teardowns' = teardowns + 1
    /\ \E out \in {PS_dispose(ps)} :
           /\ ps' = out.ps
           /\ threw' = out.threw
    /\ ops' = <<"dispose">>
    /\ UNCHANGED <<seed, raf, controls, ticks>>
    /\ EngineFrame

EngineNext ==
    \/ PS_SetPattern
    \/ PS_SetParticleCount
    \/ PS_SetColors
    \/ PS_SetAnimationSpeed
    \/ PS_UpdateGestureInfluence
    \/ PS_Reset
    \/ PS_AnimationFrame
    \/ PS_Dispose

SpecEngine == EngineInit /\ [][EngineNext]_vars

\* ------------------------------------------------------------ the App
\* An onGestureUpdate that goes on whatever the gesture toggle says.
ShowsGesture_IgnoringToggle(ns) ==
    /\ app.isInitialized
    /\ \E i \in 1..Len(ns) : ns[i].cb = "onGestureUpdate"

\* What App.onGestureUpdate does with the GestureState a callback received:
\* nothing unless the App is initialized and gestures are enabled. Past
\* that test it shows the description of the gesture,
ShowsGesture(ns) ==
    /\ app.isInitialized
    /\ app.gestureEnabled
    /\ \E i \in 1..Len(ns) : ns[i].cb = "onGestureUpdate"

\* and it updates the particle targets if there is a ParticleSystem.
AppliesGesture(ns) == ShowsGesture(ns) /\ app.particleSystem

\* The GestureState onGestureUpdate was called with.
GestureOf(ns) ==
    ns[CHOOSE i \in 1..Len(ns) : ns[i].cb = "onGestureUpdate"].seen

\* What the landmark detector answers in a session, and the patterns chosen.
AppResults == {NoHandResults, HandResults(OpenHand), HandResults(Fist)}

AppPatterns == {"cube", "heart"}

\* setParticleCount(5000) on what setPattern returned.
setParticleCountAfter(patterned) ==
    setParticleCount(patterned.ps, MaxCount, patterned.seed)

\* setParticleSize(2) and setAnimationSpeed(1) on what setParticleCount
\* returned.
sizeAndSpeedAfter(counted) ==
    [ps |-> setAnimationSpeed(counted.ps, SpeedUnit),
     seed |-> SeedAfter(counted.seed, MaxCount)]

\* The page is loaded: new App().
AppInit ==
    /\ app = NewApp
    /\ ps = PS_fields(MaxCount)
    /\ gd = NewGestureDetector
    /\ seed \in SeedValues
    /\ raf = 0
    /\ inFlight = <<>>
    /\ notes = <<>>
    /\ ops = <<>>
    /\ threw = "none"
    /\ frameLog = <<>>
    /\ edgeLog = <<>>
    /\ controls = 0
    /\ ticks = 0
    /\ teardowns = 0
    /\ lastResults = NoHandResults
    /\ simple = NoPage
    /\ replaced = NoneReplaced

\* App.start() up to its await: the ParticleSystem is built (and runs its
\* first frame), the GestureDetector is built, the three callbacks are
\* registered and init() is called.  One session is started per behaviour.
App_Start ==
    /\ ~app.particleSystem
    /\ \E made \in {NewParticleSystem(MaxCount, seed)} :
           /\ ps' = made.ps
           /\ seed' = made.seed
           /\ ops' = made.ops
    /\ raf' = raf + 1
    /\ ticks' = ticks + 1
    /\ gd' = GD_init([NewGestureDetector EXCEPT !.onGestureUpdate = TRUE,
                                                !.onHandDetected = TRUE,
                                                !.onHandLost = TRUE])
    /\ app' = [app EXCEPT !.particleSystem = TRUE, !.gestureDetector = TRUE]
    /\ notes' = <<>>
    /\ threw' = "none"
    /\ UNCHANGED <<replaced, lastResults, simple, inFlight, frameLog, edgeLog, controls, teardowns>>

\* camera.start() succeeds: the then-handler of init() runs, init() resolves
\* and start() continues after its await.
Camera_StartResolves ==
    /\ gd.camera = "starting"
    /\ gd' = cameraStarted(gd)
    /\ app' = [app EXCEPT !.isInitialized = TRUE]
    /\ notes' = <<>>
    /\ ops' = <<"resolve">>
    /\ threw' = "none"
    /\ UNCHANGED <<replaced, lastResults, simple, ps, seed, raf, inFlight, frameLog, edgeLog, controls, ticks,
                   teardowns>>

\* camera.start() fails: init() rejects and start() takes its catch branch,
\* which reports the error and keeps the ParticleSystem it has.
Camera_StartRejects ==
    /\ gd.camera = "starting"
    /\ gd' = cameraFailed(gd)
    /\ app' = startCatch(app)
    /\ IF app.particleSystem
       THEN /\ ops' = <<"reject", "console.error">>
            /\ UNCHANGED <<ps, seed, raf, ticks>>
       ELSE \E made \in {NewParticleSystem(MaxCount, seed)} :
                /\ ps' = made.ps
                /\ seed' = made.seed
                /\ ops' = <<"reject", "console.error">> \o made.ops
                /\ raf' = raf + 1
                /\ ticks' = ticks + 1
    /\ notes' = <<>>
    /\ threw' = "none"
    /\ UNCHANGED <<replaced, lastResults, simple, inFlight, frameLog, edgeLog, controls, teardowns>>

\* The camera has a frame and calls onFrame; it waits for the promise of the
\* call before it delivers the next frame.  A closed landmark detector
\* answers no frame.
Camera_Frame ==
    /\ gd.camera = "running"
    /\ inFlight = <<>>
    /\ Len(frameLog) < MaxAppFrames
    /\ ops' = IF onFrameSends(gd) THEN <<"send">> ELSE <<>>
    /\ inFlight' = IF onFrameSends(gd) /\ gd.hands = "open" THEN <<"frame">>
                   ELSE inFlight
    /\ notes' = <<>>
    /\ threw' = "none"
    /\ UNCHANGED <<replaced, lastResults, simple, gd, ps, app, seed, raf, frameLog, edgeLog, controls, ticks,
                   teardowns>>

\* The landmark detector answers a frame: onResults runs, and with it the
\* callbacks start() registered.
Hands_Results ==
    /\ inFlight # <<>>
    /\ inFlight' = Tail(inFlight)
    /\ \E results \in AppResults : ProcessResults(results)
    /\ app' = IF ShowsGesture(notes')
              THEN [app EXCEPT !.gestureText = getGestureDescription(gd')]
              ELSE app
    /\ IF AppliesGesture(notes')
       THEN \E out \in {updateGestureInfluence(ps, GestureOf(notes').openness,
                                               GestureOf(notes').position,
                                               app.gestureSensitivity, seed)} :
                /\ ps' = out.ps
                /\ seed' = out.seed
                /\ ops' = <<"onResults", "updateGestureInfluence">>
       ELSE /\ ops' = <<"onResults">>
            /\ UNCHANGED <<ps, seed>>
    /\ UNCHANGED <<replaced, simple, raf, controls, ticks, teardowns>>

\* The browser runs the animate continuation of the session.
App_AnimationFrame == ticks < MaxAppTicks /\ PS_AnimationFrame

\* A control event: one more of them.
Control(op) ==
    /\ controls < MaxControls
    /\ controls' = controls + 1
    /\ ops' = <<op>>
    /\ notes' = <<>>
    /\ threw' = "none"
    /\ UNCHANGED <<replaced, lastResults, simple, raf, inFlight, frameLog, edgeLog, ticks, teardowns>>

\* A pattern button is clicked.
App_SetPattern ==
    /\ Control("setPattern")
    /\ app.particleSystem
    /\ \E pattern \in AppPatterns :
           \E out \in {setPattern(ps, pattern, seed)} :
               /\ ps' = out.ps
               /\ seed' = out.seed
    /\ UNCHANGED <<gd, app>>

\* The particle-count slider is released.
App_SetParticleCount ==
    /\ Control("setParticleCount")
    /\ app.particleSystem
    /\ \E count \in CountValues :
           \E out \in {setParticleCount(ps, count, seed)} :
               /\ ps' = out.ps
               /\ seed' = out.seed
    /\ UNCHANGED <<gd, app>>

\* The animation-speed slider is moved.
App_SetAnimationSpeed ==
    /\ Control("setAnimationSpeed")
    /\ app.particleSystem
    /\ \E speed \in SpeedValues : ps' = setAnimationSpeed(ps, speed)
    /\ UNCHANGED <<gd, app, seed>>

\* The gesture-sensitivity slider is moved: the slider keeps the value and
\* the detector, if there is one, is told.
App_SetSensitivity ==
    /\ Control("setSensitivity")
    /\ \E s \in SensitivityValues :
           /\ app' = [app EXCEPT !.gestureSensitivity = s]
           /\ gd' = IF app.gestureDetector THEN setSensitivity(gd, s) ELSE gd
    /\ UNCHANGED <<ps, seed>>

\* The gesture-enabled toggle is flipped.
App_ToggleGesture ==
    /\ Control("toggleGesture")
    /\ app' = [app EXCEPT !.gestureEnabled = ~app.gestureEnabled]
    /\ gd' = IF ~app.gestureDetector THEN gd
             ELSE IF ~app.gestureEnabled THEN resume(gd) ELSE pause(gd)
    /\ UNCHANGED <<ps, seed>>

\* A colour picker or a colour preset changes the colours.
App_SetColors ==
    /\ Control("setColors")
    /\ app.particleSystem
    /\ \E c \in ColorValues : ps' = setColors(ps, c[1], c[2])
    /\ UNCHANGED <<gd, app, seed>>

\* The ParticleSystem calls of App.reset(), in order: reset, setColors,
\* setPattern('sphere'), setParticleCount(5000), setParticleSize(2), which
\* draws once per particle, and setAnimationSpeed(1).
resetCalls(p, s) ==
    sizeAndSpeedAfter(setParticleCountAfter(
        setPattern(setColors(reset(p), PrimaryHex, SecondaryHex), "sphere", s)))

\* The reset button or the R key: App.reset() also puts the sliders back,
\* the sensitivity slider among them.
App_Reset ==
    /\ Control("reset")
    /\ app' = [app EXCEPT !.gestureSensitivity = Unit]
    /\ IF app.particleSystem
       THEN \E out \in {resetCalls(ps, seed)} :
                /\ ps' = out.ps
                /\ seed' = out.seed
       ELSE UNCHANGED <<ps, seed>>
    /\ UNCHANGED gd

\* App.dispose(), the beforeunload handler: the exception of
\* ParticleSystem.dispose() leaves the function before
\* GestureDetector.dispose() is called.
App_Dispose ==
    /\ teardowns < MaxDisposals
    /\ teardowns' = teardowns + 1
    /\ IF app.particleSystem
       THEN \E out \in {PS_dispose(ps)} :
                /\ ps' = out.ps
                /\ threw' = out.threw
                /\ gd' = IF out.threw = "none" /\ app.gestureDetector
                         THEN GD_dispose(gd) ELSE gd
       ELSE /\ threw' = "none"
            /\ gd' = IF app.gestureDetector THEN GD_dispose(gd) ELSE gd
            /\ UNCHANGED ps
    /\ ops' = <<"dispose">>
    /\ notes' = <<>>
    /\ UNCHANGED <<replaced, lastResults, simple, app, seed, raf, inFlight, frameLog, edgeLog, controls, ticks>>

Next ==
    \/ App_Start
    \/ Camera_StartResolves
    \/ Camera_StartRejects
    \/ Camera_Frame
    \/ Hands_Results
    \/ App_AnimationFrame
    \/ App_SetPattern
    \/ App_SetParticleCount
    \/ App_SetAnimationSpeed
    \/ App_SetSensitivity
    \/ App_ToggleGesture
    \/ App_SetColors
    \/ App_Reset
    \/ App_Dispose

Spec == AppInit /\ [][Next]_vars

\* ------------------------------------------------- start() called again
\* What the steps of a start sequence leave alone.
StartFrame ==
    UNCHANGED <<lastResults, simple, inFlight, frameLog, edgeLog, controls>>

\* App.start() on an App that holds a ParticleSystem already: start() tests
\* nothing before it assigns this.particleSystem and this.gestureDetector.
\* The instances it replaces are not disposed: a ParticleSystem that was
\* animating keeps its continuation and its canvas, a GestureDetector keeps
\* its camera and its pending start.
App_Restart ==
    /\ app.particleSystem
    /\ replaced.restarts < MaxRestarts
    /\ replaced' =
           [restarts |-> replaced.restarts + 1,
            loops |-> replaced.loops
                      + (IF ps.isAnimating /\ raf > 0 THEN 1 ELSE 0),
            cameras |-> replaced.cameras
                        \o (IF app.gestureDetector
                               /\ gd.camera \in {"starting", "running"}
                            THEN <<gd.camera>> ELSE <<>>)]
    /\ \E made \in {NewParticleSystem(MaxCount, seed)} :
           /\ ps' = made.ps
           /\ seed' = made.seed
           /\ ops' = made.ops
    /\ raf' = 1
    /\ ticks' = ticks + 1
    /\ gd' = GD_init([NewGestureDetector EXCEPT !.onGestureUpdate = TRUE,
                                                !.onHandDetected = TRUE,
                                                !.onHandLost = TRUE])
    /\ app' = [app EXCEPT !.particleSystem = TRUE, !.gestureDetector = TRUE]
    /\ notes' = <<>>
    /\ threw' = "none"
    /\ UNCHANGED <<lastResults, simple, frameLog, edgeLog, controls, teardowns>>
    /\ inFlight' = <<>>

\* camera.start() of a replaced GestureDetector succeeds: its init()
\* resolves and the start() call that awaited it marks the App initialized.
Replaced_StartResolves ==
    /\ \E k \in 1..Len(replaced.cameras) :
           /\ replaced.cameras[k] = "starting"
           /\ replaced' = [replaced EXCEPT !.cameras[k] = "running"]
    /\ app' = [app EXCEPT !.isInitialized = TRUE]
    /\ notes' = <<>>
    /\ ops' = <<"resolve">>
    /\ threw' = "none"
    /\ UNCHANGED <<gd, ps, seed, raf, ticks, teardowns>>
    /\ StartFrame

\* camera.start() of a replaced GestureDetector fails: the start() call that
\* awaited it takes its catch branch.
Replaced_StartRejects ==
    /\ \E k \in 1..Len(replaced.cameras) :
           /\ replaced.cameras[k] = "starting"
           /\ replaced' =
                  [replaced EXCEPT
                     !.cameras = SubSeq(replaced.cameras, 1, k - 1)
                                 \o SubSeq(replaced.cameras, k + 1,
                                           Len(replaced.cameras))]
    /\ app' = startCatch(app)
    /\ notes' = <<>>
    /\ ops' = <<"reject", "console.error">>
    /\ threw' = "none"
    /\ UNCHANGED <<gd, ps, seed, raf, ticks, teardowns>>
    /\ StartFrame

\* The browser runs the animate continuation of a replaced ParticleSystem,
\* which draws on its own canvas and schedules itself again.
Replaced_AnimationFrame ==
    /\ replaced.loops > 0
    /\ ticks < MaxAppTicks
    /\ ticks' = ticks + 1
    /\ ops' = <<"requestAnimationFrame", "interpolate", "render">>
    /\ notes' = <<>>
    /\ threw' = "none"
    /\ UNCHANGED <<replaced, gd, ps, app, seed, raf, teardowns>>
    /\ StartFrame

StartsNext ==
    \/ App_Start
    \/ App_Restart
    \/ Camera_StartResolves
    \/ Camera_StartRejects
    \/ Replaced_StartResolves
    \/ Replaced_StartRejects
    \/ App_AnimationFrame
    \/ Replaced_AnimationFrame
    \/ App_Dispose

SpecStarts == AppInit /\ [][StartsNext]_vars

\* ------------------------------------------------------------ the page runs
\* What the steps of the page leave alone.
PageFrame ==
    UNCHANGED <<replaced, gd, ps, app, inFlight, notes, threw, edgeLog, teardowns>>

\* The page after DOMContentLoaded: initThreeJS has created the sphere and
\* run animate() once, which has scheduled the next run; initMediaPipe has
\* started the camera and initUI has registered the handlers.
PageInit ==
    /\ \E s \in SeedValues :
           \E made \in {createParticleSystem(PageGlobals, "sphere", s)} :
               /\ simple = Page_animate(made.page)
               /\ seed = made.seed
    /\ raf = 1
    /\ ticks = 1
    /\ ops = <<"requestAnimationFrame", "render">>
    /\ gd = NewGestureDetector
    /\ ps = PS_fields(MaxCount)
    /\ app = NewApp
    /\ inFlight = <<>>
    /\ notes = <<>>
    /\ threw = "none"
    /\ frameLog = <<>>
    /\ edgeLog = <<>>
    /\ controls = 0
    /\ teardowns = 0
    /\ lastResults = NoHandResults
    /\ replaced = NoneReplaced

\* The landmark detector answers a camera frame: onHandsResults runs.
Page_HandsResults ==
    /\ Len(frameLog) < MaxAppFrames
    /\ \E results \in PageResults :
           /\ simple' = onHandsResults(simple, results)
           /\ lastResults' = results
           /\ frameLog' = Append(frameLog, FrameKind(results))
    /\ ops' = <<"onHandsResults">>
    /\ UNCHANGED <<seed, raf, controls, ticks>>
    /\ PageFrame

\* The browser runs the continuation requestAnimationFrame holds: animate(),
\* which schedules itself again before anything else.
Page_AnimationFrame ==
    /\ raf > 0
    /\ ticks < MaxAppTicks
    /\ ticks' = ticks + 1
    /\ raf' = raf - 1 + 1
    /\ simple' = Page_animate(simple)
    /\ ops' = <<"requestAnimationFrame", "render">>
    /\ UNCHANGED <<seed, controls, frameLog, lastResults>>
    /\ PageFrame

\* A pattern button is clicked.
Page_PatternClick ==
    /\ controls < MaxControls
    /\ controls' = controls + 1
    /\ \E pattern \in PagePatterns :
           \E made \in {createParticleSystem(
                            [simple EXCEPT !.currentPattern = pattern],
                            pattern, seed)} :
               /\ simple' = made.page
               /\ seed' = made.seed
    /\ ops' = <<"createParticleSystem">>
    /\ UNCHANGED <<raf, ticks, frameLog, lastResults>>
    /\ PageFrame

\* The colour picker delivers a colour.
Page_ColorInput ==
    /\ controls < MaxControls
    /\ controls' = controls + 1
    /\ \E c \in PageColors :
           simple' = [simple EXCEPT !.currentColor = c, !.materialColor = c]
    /\ ops' = <<"setHex">>
    /\ UNCHANGED <<seed, raf, ticks, frameLog, lastResults>>
    /\ PageFrame

PageNext ==
    \/ Page_HandsResults
    \/ Page_AnimationFrame
    \/ Page_PatternClick
    \/ Page_ColorInput

SpecPage == PageInit /\ [][PageNext]_vars

\* ===================================================================== claims
Last(seq) == seq[Len(seq)]

\* A frame was processed by this step, and it was of the given kind.
Processed(kind) ==
    /\ Len(frameLog') = Len(frameLog) + 1
    /\ Last(frameLog') = kind

\* The last frame before frame k on which onResults ran to completion (a
\* partial landmark list makes it raise before it changes anything), 0 if none.
PrevCompleted(k) ==
    LET done == {j \in 1..(k - 1) : frameLog[j] # "partial"}
    IN  IF done = {} THEN 0 ELSE CHOOSE j \in done : \A i \in done : i <= j

HadHand(j) == j > 0 /\ frameLog[j] = "hand"

\* How many times callback cb was invoked at frame k.
Fired(cb, k) ==
    Cardinality({i \in 1..Len(edgeLog) : edgeLog[i] = [cb |-> cb, frame |-> k]})

\* C2: onHandDetected is invoked exactly once at each frame that has a hand
\* when the frame before it had none (or there was none before), onHandLost
\* exactly once at each frame without a hand when the frame before it had
\* one, and neither is invoked at any other frame.
C2_EdgeTriggers ==
    \A k \in 1..Len(frameLog) :
        /\ Fired("onHandDetected", k) =
               (IF frameLog[k] = "hand" /\ ~HadHand(PrevCompleted(k)) THEN 1 ELSE 0)
        /\ Fired("onHandLost", k) =
               (IF frameLog[k] = "none" /\ HadHand(PrevCompleted(k)) THEN 1 ELSE 0)

\* The frames [no, no, yes, yes, no]: one onHandDetected at the third frame
\* and one onHandLost at the fifth.
C2_Witness ==
    /\ frameLog = <<"none", "none", "hand", "hand", "none">>
    /\ edgeLog = <<[cb |-> "onHandDetected", frame |-> 3],
                   [cb |-> "onHandLost", frame |-> 5]>>

\* C3: in the notifications of one detector onHandDetected and onHandLost
\* strictly alternate, starting with onHandDetected.
C3_Alternation ==
    \A i \in 1..Len(edgeLog) :
        edgeLog[i].cb = (IF i % 2 = 1 THEN "onHandDetected" ELSE "onHandLost")

\* A hand was detected, lost and detected again.
C3_Witness == Len(edgeLog) >= 3

\* v moved to w toward Neutral by RelaxFactor of the gap: no further from
\* Neutral, on the same side of it, by a twentieth of the gap (to the
\* rounding of one count), and strictly closer while a twentieth of the gap
\* is more than the rounding of a count.
Relaxed(v, w) ==
    /\ ~IsNaN(w)
    /\ Abs(w - Neutral) <= Abs(v - Neutral)
    /\ (w - Neutral) * (v - Neutral) >= 0
    /\ Abs(20 * (w - v) - (Neutral - v)) <= 10
    /\ Abs(v - Neutral) > 10 => Abs(w - Neutral) < Abs(v - Neutral)

\* C4: every frame without a hand moves openness and both position
\* coordinates toward 0.5 by 0.05 of the gap, monotonically and without
\* overshoot.
C4_NoHandRelaxation ==
    [][Processed("none") =>
          /\ Relaxed(gd.currentGesture.openness, gd'.currentGesture.openness)
          /\ Relaxed(gd.currentGesture.position.x, gd'.currentGesture.position.x)
          /\ Relaxed(gd.currentGesture.position.y, gd'.currentGesture.position.y)]_vars

\* C6: a landmark list of fewer than 21 points is handled exactly as a frame
\* without a hand: no exception, and the state and callbacks of the no-hand
\* branch.
C6_PartialAsNoHand ==
    [][Processed("partial") =>
          /\ threw' = "none"
          /\ gd' = NoHandBranch(gd).gd
          /\ notes' = NoHandBranch(gd).notes]_vars

\* C8: the GestureState a callback reads through getGesture() is the one of
\* the frame being notified: the tuple onResults leaves behind, detected for
\* onHandDetected and not detected for onHandLost.
C8_TupleAtCallback ==
    \A i \in 1..Len(notes) :
        /\ notes[i].seen = getGesture(gd)
        /\ notes[i].cb = "onHandDetected" => notes[i].seen.isDetected
        /\ notes[i].cb = "onHandLost" => ~notes[i].seen.isDetected

\* C1: the three position arrays hold 3 * particleCount coordinates each in
\* every state of a ParticleSystem, and setParticleCount leaves all three
\* allocated anew with the same pattern.
C1_ArrayLengths ==
    /\ Len(ps.originalPositions) = 3 * ps.particleCount
    /\ Len(ps.targetPositions) = 3 * ps.particleCount
    /\ Len(ps.positions) = 3 * ps.particleCount
    /\ ops = <<"setParticleCount">> =>
           /\ ps.targetPositions = ps.originalPositions
           /\ ps.positions = ps.originalPositions

\* The particle count was changed from the default.
C1_Witness ==
    /\ ops = <<"setParticleCount">>
    /\ ps.particleCount # MaxCount
    /\ Len(ps.positions) = 3 * ps.particleCount

\* This step is a render tick: animate() ran its loop on a ParticleSystem
\* whose particles exist.
Tick ==
    /\ ticks' = ticks + 1
    /\ ps.inScene
    /\ ps.isAnimating

\* The offset of coordinate k from its target, before and after the step.
Gap(k) == ps.targetPositions[k] - ps.positions[k]

GapAfter(k) == ps'.targetPositions[k] - ps'.positions[k]

\* a^2 + b^2 + c^2 as three digits to the base Unit * Unit, for offsets
\* below Unit * Unit.
SumSq(a, b, c) ==
    LET hi(v) == Abs(v) \div Unit
        lo(v) == Abs(v) % Unit
        top == hi(a) * hi(a) + hi(b) * hi(b) + hi(c) * hi(c)
        mid == 2 * (hi(a) * lo(a) + hi(b) * lo(b) + hi(c) * lo(c))
        low == lo(a) * lo(a) + lo(b) * lo(b) + lo(c) * lo(c)
        m == mid + low \div Unit
    IN  <<top + m \div Unit, m % Unit, low % Unit>>

LexLeq(u, v) ==
    \/ u[1] < v[1]
    \/ u[1] = v[1] /\ u[2] < v[2]
    \/ u[1] = v[1] /\ u[2] = v[2] /\ u[3] <= v[3]

\* C5 as stated: with the targets unchanged, no animate tick takes a particle
\* further from its target.
C5_DistanceNonIncreasing ==
    [][Tick =>
          \A i \in 0..(ps.particleCount - 1) :
              LexLeq(SumSq(GapAfter(3 * i + 1), GapAfter(3 * i + 2),
                           GapAfter(3 * i + 3)),
                     SumSq(Gap(3 * i + 1), Gap(3 * i + 2), Gap(3 * i + 3)))]_vars

\* The offset g became h by one interpolation step at the given speed, to
\* the rounding of a count and a displacement of at most slack.
Contracted(g, h, speed, slack) ==
    Abs(20 * SpeedUnit * h - g * (20 * SpeedUnit - speed))
        <= 10 * SpeedUnit + 20 * SpeedUnit * slack

\* C5, amended: an animate tick multiplies the x and z offsets of every
\* particle from its target by 1 - 0.05 * speed, and the y offset by the
\* same factor before the floating term, of at most 0.1 * speed, displaces
\* it.
C5_Contraction ==
    [][Tick =>
          \A i \in 0..(ps.particleCount - 1) :
              /\ Contracted(Gap(3 * i + 1), GapAfter(3 * i + 1),
                            ps.animationSpeed, 0)
              /\ Contracted(Gap(3 * i + 2), GapAfter(3 * i + 2),
                            ps.animationSpeed,
                            Round(Unit * ps.animationSpeed, 10 * SpeedUnit))
              /\ Contracted(Gap(3 * i + 3), GapAfter(3 * i + 3),
                            ps.animationSpeed, 0)]_vars

\* The targets were moved by a gesture and two frames have run since.
C5_Witness ==
    /\ ops = <<"requestAnimationFrame", "interpolate", "render">>
    /\ ps.gestureInfluence = Unit
    /\ ps.targetPositions # ps.originalPositions
    /\ ps.positions # ps.targetPositions
    /\ ticks = MaxTicks

Count(os, op) == Cardinality({i \in 1..Len(os) : os[i] = op})

C9_NothingAfterDispose ==
    (ps.rendererDisposed /\ gd.hands = "closed") =>
        \A i \in 1..Len(ops) : ops[i] \notin {"interpolate", "render", "send"}

\* C10: a teardown call on a ParticleSystem that is disposed already raises
\* no error and changes nothing.
C10_TeardownIdempotent ==
    [][(teardowns' = teardowns + 1 /\ ps.rendererDisposed) =>
          /\ threw' = "none"
          /\ ps' = ps
          /\ gd' = gd]_vars

C12_SetPatternWritesBoth ==
    [][ops' = <<"setPattern">> =>
          /\ ps'.targetPositions = ps'.originalPositions
          /\ Len(ps'.originalPositions) = 3 * ps.particleCount
          /\ \E kind \in PatternValues :
                 /\ ps'.currentPattern = kind
                 /\ ps'.originalPositions =
                        generatePattern(kind, ps.particleCount, seed).positions
          /\ ps'.positions = ps.positions
          /\ ps'.particleCount = ps.particleCount]_vars

\* The heart was chosen while the particles were away from their targets.
C12_Witness ==
    /\ ops = <<"setPattern">>
    /\ ps.currentPattern = "heart"
    /\ ps.targetPositions = ps.originalPositions
    /\ ps.positions # ps.targetPositions
    /\ ticks > 1

\* What setParticleCount(n) must leave behind when called on p: n particles
\* of the pattern p had, in three arrays of 3n coordinates that are equal
\* element by element and hold what generatePattern returns for n.
Regenerated(p, q, n, gen) ==
    /\ q.particleCount = n
    /\ q.currentPattern = p.currentPattern
    /\ Len(q.originalPositions) = 3 * n
    /\ q.originalPositions = gen.positions
    /\ q.targetPositions = q.originalPositions
    /\ q.positions = q.originalPositions

AllAssigned(positions, n) ==
    /\ Len(positions) = 3 * n
    /\ \A k \in 1..Len(positions) : ~IsNaN(positions[k])

\* C14: whenever generatePattern is called (by setPattern with any of the
\* eight kinds or an unrecognised one, by setParticleCount with any count
\* above 0) it returns exactly particleCount positions, 3 * particleCount
\* coordinates, each of them assigned a number.
C14_GenerateReturnsCount ==
    [][(ops' = <<"setPattern">> \/ ops' = <<"setParticleCount">>) =>
          \A gen \in {generatePattern(ps'.currentPattern, ps'.particleCount,
                                       seed)} :
              /\ ps'.particleCount > 0
              /\ AllAssigned(gen.positions, ps'.particleCount)
              /\ ps'.targetPositions = gen.positions]_vars

\* A name that matches no case of the switch was passed to setPattern.
C14_Witness ==
    /\ ops = <<"setPattern">>
    /\ ps.currentPattern \notin {"sphere", "cube", "torus", "spiral", "galaxy",
                                  "heart", "dna", "wave"}
    /\ AllAssigned(ps.targetPositions, ps.particleCount)

\* C15: for the kinds spiral, wave and dna, a second call of generatePattern
\* with the same kind and the same particleCount returns the positions the
\* first call returned, whatever the random source delivers in between.
C15_DeterministicKinds ==
    \A kind \in {"spiral", "wave", "dna"} :
        \A first \in {generatePattern(kind, ps.particleCount, seed)} :
            generatePattern(kind, ps.particleCount, first.seed).positions
                = first.positions

\* The openness values 0, 0.1, ..., 1.
OpennessGrid == {(k * Unit) \div 10 : k \in 0..10}

\* The centre of the image, (0.5, 0.5).
Centre == [x |-> Half, y |-> Half]

\* target is (0.3 + 1.7 * openness) * original, to the rounding of a count:
\* 10 * Unit * target = original * (3 * Unit + 17 * openness).
ScaledBy(target, original, openness) ==
    Abs(10 * Unit * target - original * (3 * Unit + 17 * openness))
        <= 5 * Unit + 5 * Abs(original)

\* C16: updateGestureInfluence with the hand at (0.5, 0.5) and openness at
\* most 0.7 sets every coordinate of every target to (0.3 + 1.7 * openness)
\* times the original one; the scale is 0.3 at openness 0 and 2.0 at
\* openness 1, and strictly increasing in openness.
C16_ScaleLaw ==
    /\ [](/\ gestureScale(0) = (3 * Unit) \div 10
          /\ gestureScale(Unit) = 2 * Unit
          /\ \A o1, o2 \in OpennessGrid :
                 o1 < o2 => gestureScale(o1) < gestureScale(o2))
    /\ [][(/\ ops' = <<"updateGestureInfluence">>
           /\ ps'.gesturePosition = Centre
           /\ ps'.gestureInfluence <= (7 * Unit) \div 10) =>
              /\ ps'.originalPositions = ps.originalPositions
              /\ Len(ps'.targetPositions) = 3 * ps.particleCount
              /\ \A k \in 1..(3 * ps.particleCount) :
                     ScaledBy(ps'.targetPositions[k], ps.originalPositions[k],
                              ps'.gestureInfluence)]_vars

\* A fist at the centre of the image has pulled the targets in.
C16_Witness ==
    /\ ops = <<"updateGestureInfluence">>
    /\ ps.gesturePosition = Centre
    /\ ps.gestureInfluence = 0
    /\ ps.targetPositions # ps.originalPositions
    /\ \A k \in 1..Len(ps.targetPositions) :
           ScaledBy(ps.targetPositions[k], ps.originalPositions[k], 0)

\* C17: whatever openness updateGestureInfluence is called with, below 0 and
\* above 1 included, the scale it applies to the original positions lies in
\* [0.3, 2.0].
C17_ScaleClamped ==
    ops = <<"updateGestureInfluence">> =>
        /\ gestureScale(ps.gestureInfluence) >= (3 * Unit) \div 10
        /\ gestureScale(ps.gestureInfluence) <= 2 * Unit

\* How far a frame with the given hand moves the openness of detector g from
\* the previous one: the part of the gap to the raw value the frame closes.
GapClosed(g, landmarks) ==
    Abs(HandBranch(g, HandResults(landmarks).hands[1]).gd.currentGesture.openness
        - g.previousOpenness)

\* C18: the smoothing factor is 0.3 whenever the sensitivity is at its
\* default 1.0, before and after setSensitivity(1.0); it never exceeds 0.5;
\* and of two sensitivities the lower one smooths more: a frame with a hand
\* closes no more of the gap to the raw value with the lower sensitivity than
\* with the higher.
C18_SmoothingBySensitivity ==
    /\ gd.sensitivity = Unit => gd.smoothingFactor = DefaultSmoothing
    /\ gd.smoothingFactor <= Half
    /\ \A s1, s2 \in SensitivityValues :
           s1 < s2 =>
               \A h \in {OpenHand, Fist} :
                   GapClosed(setSensitivity(gd, s1), h)
                       <= GapClosed(setSensitivity(gd, s2), h)

\* v is a number in [0, 1].
InUnit(v) == ~IsNaN(v) /\ 0 <= v /\ v <= Unit

\* C19: every GestureState the estimator emits, after any frames with and
\* without a hand and any setSensitivity calls, has its openness and both
\* position coordinates in [0, 1].
C19_StateInRange ==
    \A i \in 1..Len(notes) :
        notes[i].cb = "onGestureUpdate" =>
            /\ InUnit(notes[i].seen.openness)
            /\ InUnit(notes[i].seen.position.x)
            /\ InUnit(notes[i].seen.position.y)

\* The text the claim gives for a GestureState with a numeric openness.
Described(isDetected, openness) ==
    CASE ~isDetected -> "Searching..."
      [] isDetected /\ 10 * openness < 3 * Unit -> "Closed Fist"
      [] isDetected /\ 3 * Unit <= 10 * openness /\ 10 * openness < 5 * Unit ->
             "Partially Closed"
      [] isDetected /\ 5 * Unit <= 10 * openness /\ 10 * openness < 7 * Unit ->
             "Partially Open"
      [] isDetected /\ 7 * Unit <= 10 * openness -> "Open Hand"

\* Openness values at, just below and away from the three thresholds.
ThresholdGrid ==
    {0, (3 * Unit) \div 10 - 1, (3 * Unit) \div 10, (5 * Unit) \div 10 - 1,
     (5 * Unit) \div 10, (7 * Unit) \div 10 - 1, (7 * Unit) \div 10, Unit}

\* C20: getGestureDescription returns a text for every GestureState:
\* 'Searching...' whenever no hand is detected, whatever the openness, and
\* otherwise 'Closed Fist' below 0.3, 'Partially Closed' from 0.3 to below
\* 0.5, 'Partially Open' from 0.5 to below 0.7 and 'Open Hand' from 0.7 on.
\* This holds of the state the estimator is in and of that state with any
\* openness and detection flag put in its place.
C20_DescriptionTable ==
    /\ getGestureDescription(gd) \in
           {"Searching...", "Closed Fist", "Partially Closed", "Partially Open",
            "Open Hand"}
    /\ ~gd.currentGesture.isDetected => getGestureDescription(gd) = "Searching..."
    /\ ~IsNaN(gd.currentGesture.openness) =>
           getGestureDescription(gd) =
               Described(gd.currentGesture.isDetected, gd.currentGesture.openness)
    /\ \A o \in ThresholdGrid, d \in BOOLEAN :
           getGestureDescription(
               [gd EXCEPT !.currentGesture.openness = o,
                          !.currentGesture.isDetected = d]) = Described(d, o)

\* A fist has been tracked until the estimator calls it one, and then lost.
C20_Witness ==
    /\ ~gd.currentGesture.isDetected
    /\ gd.currentGesture.openness < (3 * Unit) \div 10
    /\ ~IsNaN(gd.currentGesture.openness)
    /\ getGestureDescription(gd) = "Searching..."
    /\ Len(frameLog) > 1

\* Distances between landmarks, 0 to 1.5 in steps of 0.1.
DistanceGrid == {(k * Unit) \div 10 : k \in 0..15}

\* C21: when a frame with a hand has been processed, the extension score
\* analyzeGesture computed for each of its fingers is a number of at most 1;
\* and for every pair of a tip-to-knuckle and a knuckle-to-wrist distance
\* the score is a number of at most 1, and 1 when the tip is 1.5
\* knuckle-to-wrist distances or more from the knuckle.
C21_ExtensionAtMostOne ==
    FrameKind(lastResults) = "hand" =>
        /\ \A i \in 1..Len(fingerTips) :
               /\ ~IsNaN(fingerExtension(lastResults.hands[1].landmarks, i))
               /\ fingerExtension(lastResults.hands[1].landmarks, i) <= Unit
        /\ \A t, d \in DistanceGrid :
               /\ ~IsNaN(extension(t, d))
               /\ extension(t, d) <= Unit
               /\ 2 * t >= 3 * d => extension(t, d) = Unit

\* The boost: saturation times 1.2 capped at 1.0, lightness times 1.1 capped
\* at 0.7, the hue kept.
Boost(c) ==
    setHSL(getHSL(c).h,
           Min(Round(getHSL(c).s * 12, 10), Unit),
           Min(Round(getHSL(c).l * 11, 10), (7 * Unit) \div 10))

\* The colour particle i (0-based) has in the flat colour array.
ColourOf(colors, i) ==
    [r |-> colors[3 * i + 1], g |-> colors[3 * i + 2], b |-> colors[3 * i + 3]]

C24_OneRenderLoop ==
    /\ [](raf \in {0, 1})
    /\ [][/\ ticks' = ticks + 1 =>
                 /\ raf = 1
                 /\ Count(ops', "requestAnimationFrame") =
                        (IF ps.isAnimating THEN 1 ELSE 0)
                 /\ raf' = (IF ps.isAnimating THEN 1 ELSE 0)
          /\ ticks' = ticks =>
                 /\ raf' = raf
                 /\ Count(ops', "requestAnimationFrame") = 0]_vars

\* A tick ran after dispose and scheduled no successor: the loop has ended.
C24_Witness ==
    /\ ~ps.isAnimating
    /\ raf = 0
    /\ ticks > 1
    /\ ops = <<>>

\* The float term of particle i of p at the clock of p.
FloatOf(p, i) == floatOffset(p.time, i, p.particleCount, p.animationSpeed)

\* C25: a render tick modifies neither targetPositions nor originalPositions;
\* it moves each coordinate of the rendered position toward the unchanged
\* target and adds the floating offset to the rendered y coordinate only.
C25_TickKeepsTargets ==
    [][ticks' = ticks + 1 =>
          /\ ps'.targetPositions = ps.targetPositions
          /\ ps'.originalPositions = ps.originalPositions
          /\ ps.isAnimating =>
                 \A i \in 0..(ps.particleCount - 1) :
                     /\ ps'.positions[3 * i + 1] =
                            towardTarget(ps.positions[3 * i + 1],
                                         ps.targetPositions[3 * i + 1],
                                         ps.animationSpeed)
                     /\ ps'.positions[3 * i + 2] =
                            towardTarget(ps.positions[3 * i + 2],
                                         ps.targetPositions[3 * i + 2],
                                         ps.animationSpeed)
                            + FloatOf(ps', i)
                     /\ ps'.positions[3 * i + 3] =
                            towardTarget(ps.positions[3 * i + 3],
                                         ps.targetPositions[3 * i + 3],
                                         ps.animationSpeed)]_vars

\* Two ticks in a row have run on targets a gesture moved, and the float term
\* of the last one was not zero.
C25_Witness ==
    /\ ops = <<"requestAnimationFrame", "interpolate", "render">>
    /\ ticks = MaxTicks
    /\ controls = 1
    /\ ps.targetPositions # ps.originalPositions
    /\ \E i \in 0..(ps.particleCount - 1) : FloatOf(ps, i) # 0

\* v lies between a and b, ends included.
Between(a, v, b) == (a <= v /\ v <= b) \/ (b <= v /\ v <= a)

\* C26: on a frame with a hand the emitted openness and position lie between
\* the values the preceding processed frame emitted and the new raw values,
\* also when the preceding frames had no hand: smoothing resumes from the
\* relaxed values last emitted.  (Frames whose values are not numbers are
\* left out: they are the subject of C34.)
C26_SmoothingResumes ==
    [][(/\ Processed("hand")
        /\ ~IsNaN(gd.previousOpenness)
        /\ ~IsNaN(gd.currentGesture.openness)
        /\ ~IsNaN(analyzed[lastResults'.hands[1].landmarks].openness))
       => LET raw == analyzed[lastResults'.hands[1].landmarks]
              was == gd.currentGesture
              now == gd'.currentGesture
          IN  /\ Between(was.openness, now.openness, raw.openness)
              /\ Between(was.position.x, now.position.x, raw.position.x)
              /\ Between(was.position.y, now.position.y, raw.position.y)]_vars

\* The threshold of the dispersion, 0.7.
SpreadAbove == (7 * Unit) \div 10

\* What updateGestureInfluence added to coordinate k of the targets on top of
\* the scaled original coordinate, in the step from p to q.
Added(p, q, k) ==
    q.targetPositions[k]
        - Mul(p.originalPositions[k], gestureScale(q.gestureInfluence))

\* (pos.x - 0.5) * 20 * 0.3 * s on x, (0.5 - pos.y) * 20 * 0.3 * s on y and
\* nothing on z, times Unit.
PullTimesUnit(axis, pos, s) ==
    IF axis = 1 THEN 6 * (pos.x - Half) * s
    ELSE IF axis = 2 THEN 6 * (Half - pos.y) * s
    ELSE 0

C28_UniformOffset ==
    [][(/\ ops' = <<"updateGestureInfluence">>
        /\ ps'.gestureInfluence <= SpreadAbove) =>
          /\ ps'.originalPositions = ps.originalPositions
          /\ \A i, j \in 0..(ps.particleCount - 1) :
                 \A axis \in 1..3 :
                     Added(ps, ps', 3 * i + axis) = Added(ps, ps', 3 * j + axis)
          /\ \A i \in 0..(ps.particleCount - 1) :
                 Added(ps, ps', 3 * i + 3) = 0
          /\ ps'.gesturePosition = Centre =>
                 \A k \in 1..(3 * ps.particleCount) : Added(ps, ps', k) = 0
          /\ \E s \in SensitivityValues :
                 \A i \in 0..(ps.particleCount - 1) :
                     \A axis \in 1..2 :
                         Abs(Unit * Added(ps, ps', 3 * i + axis)
                             - PullTimesUnit(axis, ps'.gesturePosition, s))
                             <= Unit]_vars

\* A half-open hand at (0.9, 0.1) has moved every target by 2.4 to the right
\* and 2.4 up.
C28_Witness ==
    /\ ops = <<"updateGestureInfluence">>
    /\ ps.gestureInfluence = Half
    /\ ps.gesturePosition = [x |-> (9 * Unit) \div 10, y |-> Unit \div 10]
    /\ ps.particleCount > 1
    /\ \A i \in 0..(ps.particleCount - 1) :
           /\ Added(ps, ps, 3 * i + 1) = (24 * Unit) \div 10
           /\ Added(ps, ps, 3 * i + 2) = (24 * Unit) \div 10
           /\ Added(ps, ps, 3 * i + 3) = 0

ExtendedFingers(l) ==
    {f \in 1..5 :
        IF f = 1
        THEN 100 * ((l[5].x - l[3].x) * (l[5].x - l[3].x)
                    + (l[5].y - l[3].y) * (l[5].y - l[3].y)
                    + (l[5].z - l[3].z) * (l[5].z - l[3].z)) > Unit * Unit
        ELSE l[4 * f + 1].y < l[4 * f - 2].y}

C30_ScaleFollows ==
    /\ [](/\ simple.currentScale >= (3 * Unit) \div 10
          /\ simple.currentScale <= (15 * Unit) \div 10)
    /\ [][ticks' = ticks + 1 =>
             /\ Between(simple.currentScale, simple'.currentScale,
                        simple.targetScale)
             /\ Abs(20 * (simple'.currentScale - simple.currentScale)
                    - (simple.targetScale - simple.currentScale)) <= 10
             /\ simple'.initialPositions = simple.initialPositions
             /\ simple'.positions = simple'.rendered
             /\ Len(simple'.rendered) = 3 * simple.particleCount
             /\ \A k \in 1..(3 * simple.particleCount) :
                    2 * Abs(Unit * simple'.rendered[k]
                            - simple.initialPositions[k] * simple'.currentScale)
                        <= Unit]_vars

\* A cube was chosen and a fist seen, and the last tick has drawn the cube
\* pulled in.
C30_Witness ==
    /\ ops = <<"requestAnimationFrame", "render">>
    /\ ticks = MaxAppTicks
    /\ simple.currentPattern = "cube"
    /\ simple.targetScale = ClosedScale
    /\ simple.currentScale < Unit
    /\ simple.rendered # simple.initialPositions

\* C31: while the detector is not running (after pause() or stop() and
\* until resume()), its GestureState is not mutated and none of its
\* callbacks is invoked, also when the result of a frame sent before the
\* pause arrives.
C31_PausedIsQuiet ==
    [][~gd.isRunning =>
          /\ gd'.currentGesture = gd.currentGesture
          /\ notes' = <<>>]_vars

\* The render loops that run: the one of the App's ParticleSystem and those
\* of the ParticleSystems start() replaced.
ActiveLoops ==
    (IF app.particleSystem /\ ps.isAnimating /\ raf > 0 THEN 1 ELSE 0)
        + replaced.loops

\* The cameras that are starting or delivering frames.
ActiveCameras ==
    (IF app.gestureDetector /\ gd.camera \in {"starting", "running"}
     THEN 1 ELSE 0)
        + Len(replaced.cameras)

\* C32: whatever start() calls are made, at most one render loop and at most
\* one camera pipeline are active at any time, and no earlier instance is
\* left running that the App holds no reference to.
C32_OneSession ==
    /\ ActiveLoops <= 1
    /\ ActiveCameras <= 1
    /\ replaced.loops = 0
    /\ replaced.cameras = <<>>

\* C33: after every event the sensitivity of the control surface, which
\* onGestureUpdate passes to updateGestureInfluence, is the one the
\* GestureDetector holds, and after App.reset() the detector is back at
\* sensitivity 1 with a smoothing factor that goes with sensitivity 1: the
\* one setSensitivity(1) gives or the one the constructor sets.
C33_SensitivityAgrees ==
    [][/\ app'.gestureDetector => gd'.sensitivity = app'.gestureSensitivity
       /\ (ops' = <<"reset">> /\ app'.gestureDetector) =>
              /\ gd'.sensitivity = Unit
              /\ gd'.smoothingFactor
                     \in {setSensitivity(gd, Unit).smoothingFactor,
                          DefaultSmoothing}]_vars

\* C34: for every complete landmark set that has been processed, also one
\* whose finger has its base knuckle (and its tip) on the wrist,
\* analyzeGesture returned an openness that is a number in [0, 1], and the
\* smoothed openness is never an undefined value.
C34_OpennessDefined ==
    /\ FrameKind(lastResults) = "hand" =>
           InUnit(analyzeGesture(lastResults.hands[1].landmarks).openness)
    /\ ~IsNaN(gd.currentGesture.openness)
    /\ ~IsNaN(gd.previousOpenness)

\* C35: while the App is not initialized or the gesture toggle is off, a
\* gesture update delivered to onGestureUpdate changes neither the particle
\* targets nor the gesture status shown, and an animation frame leaves the
\* targets as they were set before the toggle.
C35_UpdateIgnored ==
    [][(~app.isInitialized \/ ~app.gestureEnabled) =>
          /\ (ops' # <<>> /\ Head(ops') = "onResults") =>
                 /\ ops' = <<"onResults">>
                 /\ ps'.targetPositions = ps.targetPositions
                 /\ app'.gestureText = app.gestureText
          /\ (app.particleSystem /\ "interpolate" \in {ops'[i] : i \in 1..Len(ops')}) =>
                 ps'.targetPositions = ps.targetPositions]_vars

\* The toggle is off and the result of a frame sent before it was switched
\* has reached onGestureUpdate, after an earlier update moved the targets
\* and set the status.
C35_Witness ==
    /\ app.isInitialized
    /\ ~app.gestureEnabled
    /\ ops = <<"onResults">>
    /\ \E i \in 1..Len(notes) : notes[i].cb = "onGestureUpdate"
    /\ app.gestureText # ""
    /\ ps.targetPositions # ps.originalPositions

====
